---- MODULE Spec2Model ----
(***************************************************************************)
(* A state-machine model of AIBot (src/AIBot/bot.py, src/AIBot/memory.py): *)
(* the per-channel conversation session with its request loop, and the     *)
(* timer-driven scan of the watched channels.                              *)
(*                                                                         *)
(* Time is counted in minutes.  Every step between two awaits of the       *)
(* Python code is one action; awaits are the only points where another     *)
(* task of the event loop can run.                                         *)
(***************************************************************************)
EXTENDS Integers, Sequences, FiniteSets, TLC

\* ------------------------------------------------------------------ bounds
MaxTime   == 6     \* Spec: the clock stops here
MaxPosts  == 1     \* Spec: plain messages and !clear commands written by users
MaxReqs   == 1     \* Spec: requests to the agent (ask_agent invocations)
MaxRuns   == 2     \* Spec: agent.run calls per request
LoopTime  == 1     \* SpecLoop: the clock stops here
LoopPosts == 5     \* SpecLoop: replies written by the requester
LoopRuns  == 6     \* SpecLoop: agent.run calls of the request
MaxNew    == 10    \* largest result.new_messages() that is modelled
MaxScanTime == 20  \* SpecScan: the clock stops here
MaxScanMsgs == 2   \* SpecScan: messages written in the watched channels
MaxPasses   == 2   \* SpecScan: calls of add_memories_task
MaxFilterTime == 11  \* SpecFilter: the clock stops here
MaxFilterMsgs == 2   \* SpecFilter: messages written in the watched channels
MaxStored == 2       \* SpecMemory: facts in the index before the pass
MaxCands == 2        \* SpecMemory: candidates of one pass
MaxFails == 1        \* SpecMemory: index operations of one pass that fail
MaxSeenTime == 30  \* SpecSeen: the clock stops here
MaxSeenMsgs == 1   \* SpecSeen: messages written in the watched channels
MaxRndPosts == 2   \* SpecRandom: plain messages and !clear commands
MaxRndTime  == 7   \* SpecRandom: the clock stops here

\* ------------------------------------------------------- program constants
HistoryCap      == 10   \* add_message_to_chat_history keeps the last 10
FetchLimit      == 5    \* ctx.channel.history(limit=5)
ResetMinutes    == 5    \* check_message_history: timedelta(minutes=5)
ActiveMinutes   == 2    \* active_conversation: timedelta(minutes=2)
FollowUpTimeout == 1    \* wait_for(..., timeout=60.0): one minute
RequestLimit    == 5    \* UsageLimits(request_limit=5)
MemoryInterval  == 10   \* memory_timer: asyncio.sleep(10 * 60)
LookbackMinutes == 5    \* check_watched_channels: timedelta(minutes=5)
SeenInterval    == 30   \* seen_messages_timer: asyncio.sleep(30 * 60)

Channels == {"general", "random"}
Users    == {"alice", "bob"}
BotUser  == "bot"
\* Everybody who can write a message.
Authors  == Users \cup {BotUser}
Requesters == {"alice"}

\* Classes of message content, by the tests the code applies to the text.
\*   chat     "!chat ..."            mention  mentions the bot
\*   cmd      another "!" command    text     plain text of 5+ characters
\*   short    fewer than 5 characters
\*   announce starts with "BOT: "    embed    carries an embed
PlainContents == {"text", "short"}


VARIABLES
    now,               \* datetime.now(timezone.utc), in minutes
    nmsgs,             \* messages written by users so far: the next id is nmsgs + 1
    nposts,            \* user posts so far (bounded by MaxPosts)
    message_history,   \* AIBot.message_history: a dict, keys appear on first write
    last_message_was,  \* AIBot.last_message_was: a dict
    pending,           \* messages whose on_message handler has not yet run
    pc,                \* per channel, where the request of that channel stands
    req,               \* per channel, the request in flight (or the last one)
    nreqs,             \* requests started so far
    supplied,          \* per channel, message_history= of the last agent.run
    posted,            \* messages written in the watched channels
    nscan,             \* how many of them: the next id is nscan + 1
    seen_messages,     \* MemoryHandler.seen_messages: a list of message ids
    watched_channels,  \* MemoryHandler.watched_channels, read from the config
    timer,             \* the memory_timer task of setup_hook
    passes,            \* the add_memories_task calls that have not returned
    npasses,           \* add_memories_task calls started so far
    handed,            \* per message id, how many check_facts calls received it
    bot_seen_messages, \* AIBot.seen_messages
    seen_timer,        \* the seen_messages_timer task of setup_hook
    bot_watched_channels,  \* AIBot.watched_channels, read from the config
    random_event,      \* the on_message call that took the random-event branch
    cleared,           \* the channel of the last clear_history command, or "none"
    index,             \* the vector index: fact id -> text of the fact
    mem,               \* the consolidation pass of one memory.add call
    dialog,            \* the delete_memory command in flight (or the last one)
    pager,             \* the search_memory command in flight (or the last one)
    umh,               \* one call of update_message_history: arguments and result
    crawl              \* one call of crawl_wikipedia: its request and its locals

rndVars == <<bot_watched_channels, random_event, cleared>>
chatVars == <<now, nmsgs, nposts, message_history, last_message_was, pending,
              pc, req, nreqs, supplied, rndVars>>
toolVars == <<umh, crawl>>
cmdVars == <<dialog, pager, toolVars>>
memVars == <<index, mem, cmdVars>>
seenVars == <<bot_seen_messages, seen_timer, memVars>>
scanVars == <<posted, nscan, seen_messages, watched_channels, timer, passes,
              npasses, handed, seenVars>>
vars == <<chatVars, scanVars>>

\* ------------------------------------------------------------- messages

NextId == nmsgs + 1

Msg(id, c, u, content) == [id |-> id, ch |-> c, author |-> u, content |-> content]

StartsWithPrefix(m) == m.content \in {"chat", "cmd"}
StartsWithChat(m)   == m.content = "chat"
IsShort(m)          == m.content = "short"
HasEmbeds(m)        == m.content = "embed"

\* util.is_bot_announcement: content.startswith("BOT: ")
is_bot_announcement(m) == m.content = "announce"

\* AIBot.is_valid_message
is_valid_message(m) ==
    /\ ~(StartsWithPrefix(m) /\ ~StartsWithChat(m))
    /\ ~is_bot_announcement(m)
    /\ ~HasEmbeds(m)
    /\ ~IsShort(m)

\* Entries of a history list.  sys_msg(text) and user_msg(text) wrap the text of
\* a channel message; an entry of AgentRunResult.new_messages() is identified by
\* its request, its run and its position.  form = 1 marks the text of a "!chat"
\* message with the command keyword removed, form = 0 the text as written.
sys_msg(m, form)  == [k |-> "sys",  id |-> m.id, run |-> 0, i |-> form]
user_msg(id)      == [k |-> "user", id |-> id,   run |-> 0, i |-> 0]
ModelEntry(r, run, i) == [k |-> "model", id |-> r, run |-> run, i |-> i]

\* result.new_messages() of run `run` of request r, n entries long
new_messages(r, run, n) == [i \in 1..n |-> ModelEntry(r, run, i)]

History(c) == IF c \in DOMAIN message_history THEN message_history[c] ELSE <<>>

SetHistory(h, c, v) == [d \in (DOMAIN h) \cup {c} |-> IF d = c THEN v ELSE h[d]]

\* ------------------------------------------------------ session operations

\* AIBot.active_conversation
active_conversation(h, c) ==
    /\ c \in DOMAIN h
    /\ h[c] # <<>>
    /\ c \in DOMAIN last_message_was
    /\ now - last_message_was[c] < ActiveMinutes

\* The test of check_message_history; a missing timestamp reads as datetime.min.
IsStale(c) ==
    \/ c \notin DOMAIN last_message_was
    \/ now - ResetMinutes > last_message_was[c]

\* A variant of check_message_history that resets only a conversation without
\* timestamp, and keeps the history of an old one.
MutResetOnlyWithoutTimestamp(h, c) ==
    IF c \notin DOMAIN last_message_was THEN SetHistory(h, c, <<>>) ELSE h

\* AIBot.check_message_history: the dict after the call
check_message_history(h, c) ==
    IF IsStale(c) THEN SetHistory(h, c, <<>>) ELSE h

\* The fetch of get_message_history: ctx.channel.history(limit=5) is read from
\* the chat platform; k of the (at most 5) messages it yields pass
\* is_valid_message, and each becomes a sys_msg.  position j is the j-th newest.
ChannelMsg(c, j) == [id |-> 0 - j, ch |-> c, author |-> "any", content |-> "text"]
FetchRecent(c, k) == [j \in 1..k |-> sys_msg(ChannelMsg(c, j), 0)]
FetchCounts == {0, FetchLimit}

\* AIBot.get_message_history: the list it returns (and stores, when it fetched)
get_message_history(h, c, k) ==
    IF h[c] = <<>> THEN FetchRecent(c, k) ELSE h[c]

\* The trim of add_message_to_chat_history
\* A variant of the slice that keeps the oldest entries.
MutKeepOldest(s) ==
    IF Len(s) > HistoryCap THEN SubSeq(s, 1, HistoryCap) ELSE s

\* add_message_to_chat_history: message_history[ctx.channel.id][-10:]
TrimToCap(s) ==
    IF Len(s) > HistoryCap THEN SubSeq(s, Len(s) - HistoryCap + 1, Len(s)) ELSE s

\* AIBot.add_message_to_chat_history: the list after the call
add_message_to_chat_history(old, new) == TrimToCap(old \o new)

\* The check of wait_for in _agent_run: lambda m: m.author == deps.context.author
wait_check(m, r) == m.author = r.user

\* dispatch('message'): every request waiting for a reply whose check accepts m
\* gets m as its response.
WakePc(m) ==
    [d \in Channels |-> IF pc[d] = "wait" /\ wait_check(m, req[d]) THEN "reply" ELSE pc[d]]
WakeReq(m) ==
    [d \in Channels |-> IF pc[d] = "wait" /\ wait_check(m, req[d])
                        THEN [req[d] EXCEPT !.resp = m.id]
                        ELSE req[d]]

\* The locals of one call of ask_agent, before any call was made.
NoReq == [id |-> 0, user |-> "alice", trig |-> Msg(0, "general", "alice", "chat"),
          kind |-> "cmd", stale |-> FALSE,
          runs |-> 0, followups |-> 0, nnew |-> 0, result |-> "unset", resp |-> 0,
          waitStart |-> 0, timedOut |-> FALSE, failedAt |-> 0, replies |-> {},
          outcome |-> "none", sent |-> "nothing", before |-> <<>>]

\* No on_message call is in the random-event branch.  error names the exception
\* that ended the last call in that branch before it reached the judge.
NoEvent == [pc |-> "idle", m |-> Msg(0, "general", "alice", "text"), hist |-> <<>>,
            stale |-> FALSE, error |-> "none"]

\* AIBot.__init__: watched_channels is read from the config.
RandomStart(w) ==
    /\ bot_watched_channels = w
    /\ cleared = "none"
    /\ random_event = NoEvent

\* The state after construction (AIBot.__init__): both dicts are empty.
FreshInit ==
    /\ now = 0
    /\ nmsgs = 0
    /\ nposts = 0
    /\ message_history = <<>>
    /\ last_message_was = <<>>
    /\ pending = {}
    /\ pc = [c \in Channels |-> "idle"]
    /\ req = [c \in Channels |-> NoReq]
    /\ nreqs = 0
    /\ supplied = [c \in Channels |-> <<>>]

\* The state that an earlier request leaves behind, the request numbered 0: a
\* "!chat" in "general" at minute 0 whose fetch found no valid message, answered
\* by the first run with two new messages, after which on_message appended the
\* "!chat" message itself (AskAgent, SearchDone, StartRun, RunAnswers,
\* OnMessageTail from FreshInit, with the ids of that request set to 0).
EarlierRequest == [NoReq EXCEPT !.runs = 1, !.nnew = 2, !.result = "final",
                                !.stale = TRUE, !.outcome = "answered",
                                !.sent = "response"]
EarlierInit ==
    /\ now = 0
    /\ nmsgs = 0
    /\ nposts = 0
    /\ message_history = [c \in {"general"} |->
          new_messages(0, 1, 2) \o <<sys_msg(EarlierRequest.trig, 0)>>]
    /\ last_message_was = [c \in {"general"} |-> 0]
    /\ pending = {}
    /\ pc = [c \in Channels |-> "idle"]
    /\ req = [c \in Channels |-> IF c = "general" THEN EarlierRequest ELSE NoReq]
    /\ nreqs = 0
    /\ supplied = [c \in Channels |-> <<>>]

ChatInit == FreshInit \/ EarlierInit

\* The steps between two awaits that are not a call of the model, a wait for a
\* reply or a sleep take no time: while one is due no new event arrives and the
\* clock stands.
Quiet ==
    /\ pending = {}
    /\ \A c \in Channels : pc[c] \in {"idle", "model", "wait"}
    /\ random_event.pc \in {"idle", "judge", "run"}

\* A user writes a plain message in channel c.  A message written while no
\* request is in flight, in a channel that has no active conversation and is
\* not watched, changes nothing (on_message falls through every branch or
\* returns from the random-event branch), and is left out.
PostMessage(u, c, content) ==
    /\ Quiet
    /\ \/ active_conversation(message_history, c)
       \/ \E d \in Channels : pc[d] # "idle"
       \/ c \in bot_watched_channels
    /\ LET m == Msg(NextId, c, u, content) IN
        /\ nmsgs' = nmsgs + 1
        /\ pending' = pending \cup {m}
        /\ pc' = WakePc(m)
        /\ req' = WakeReq(m)
    /\ nposts' = nposts + 1
    /\ UNCHANGED <<scanVars, rndVars, now, message_history, last_message_was, nreqs, supplied>>

\* AIBot.on_message for a plain message: no branch applies, then lines 166-168.
\* on_message, lines 166-168, for the message of a call that reached them.
RandomTail(h, m) ==
    IF active_conversation(h, m.ch) /\ is_valid_message(m)
    THEN [h EXCEPT ![m.ch] = Append(@, sys_msg(m, 0))]
    ELSE h

\* A variant of on_message without the test of lines 94-95: a message of the
\* bot itself goes on to the last lines like any other.
MutAppendsOwnMessages(h, m) == RandomTail(h, m)

\* on_message for a message that is no mention, no command and no random
\* event: `if message.author == self.user: return`, then lines 166-168.
on_message(h, m) == IF m.author = BotUser THEN h ELSE RandomTail(h, m)

OnMessage(m) ==
    /\ m \in pending
    /\ pending' = pending \ {m}
    /\ message_history' = on_message(message_history, m)
    /\ UNCHANGED <<scanVars, rndVars, now, nmsgs, nposts, last_message_was, pc, req, nreqs, supplied>>

\* ---------------------------------------------------------- the request

\* What ask_agent does when it ends with an exception: called from the !chat
\* command the command framework swallows it and on_message goes on to its last
\* lines; called for a mention the exception leaves on_message.
PcAfterRaise(r) == IF r.kind = "cmd" THEN "tail" ELSE "idle"

\* ask_agent, lines 265-267, for a "!chat" command or a mention written by u in
\* c: check_message_history, the timestamp, get_message_history.
AskAgent(u, c, kind, k) ==
    /\ \A d \in Channels : pc[d] = "idle"
    /\ pending = {}
    /\ LET m  == Msg(NextId, c, u, IF kind = "cmd" THEN "chat" ELSE "mention")
           h1 == check_message_history(message_history, c)
           wp == WakePc(m)
           wr == WakeReq(m)
       IN
        /\ nmsgs' = nmsgs + 1
        /\ message_history' = SetHistory(h1, c, get_message_history(h1, c, k))
        /\ last_message_was' = SetHistory(last_message_was, c, now)
        /\ pc' = [wp EXCEPT ![c] = "search"]
        /\ req' = [wr EXCEPT ![c] =
                     [NoReq EXCEPT !.id = nreqs + 1, !.user = u, !.trig = m,
                                   !.kind = kind, !.stale = IsStale(c),
                                   !.outcome = "pending"]]
    /\ nreqs' = nreqs + 1
    /\ UNCHANGED <<scanVars, rndVars, now, nposts, pending, supplied>>

\* ask_agent, lines 269-277: the memory search returns.
SearchDone(c) ==
    /\ pc[c] = "search"
    /\ pc' = [pc EXCEPT ![c] = "run"]
    /\ UNCHANGED <<scanVars, rndVars, now, nmsgs, nposts, message_history, last_message_was, pending,
                   req, nreqs, supplied>>

\* ask_agent, line 274: memory.search raises; nothing catches it in ask_agent.
SearchFails(c) ==
    /\ pc[c] = "search"
    /\ pc' = [pc EXCEPT ![c] = PcAfterRaise(req[c])]
    /\ req' = [req EXCEPT ![c].outcome = "raised"]
    /\ UNCHANGED <<scanVars, rndVars, now, nmsgs, nposts, message_history, last_message_was, pending,
                   nreqs, supplied>>

\* _agent_run, lines 296-308: the history is chosen and agent.run is called.
StartRun(c, k) ==
    /\ pc[c] = "run"
    /\ message_history[c] = <<>> \/ k = 0
    /\ LET h == get_message_history(message_history, c, k) IN
        /\ message_history' = [message_history EXCEPT ![c] = h]
        /\ supplied' = [supplied EXCEPT ![c] = h]
    /\ req' = [req EXCEPT ![c].runs = @ + 1]
    /\ pc' = [pc EXCEPT ![c] = "model"]
    /\ UNCHANGED <<scanVars, rndVars, now, nmsgs, nposts, last_message_was, pending, nreqs>>

\* A variant of the except clause that sends the loop into another run.
MutRetryAfterException == "run"

\* _agent_run, lines 333-337: where the loop goes when agent.run raised
\* (the except clause returns None).
PcAfterRunException == "none"

\* agent.run raises (UsageLimitExceeded or any other exception).
RunRaises(c) ==
    /\ pc[c] = "model"
    /\ pc' = [pc EXCEPT ![c] = PcAfterRunException]
    /\ req' = [req EXCEPT ![c].failedAt = req[c].runs, ![c].result = "none"]
    /\ UNCHANGED <<scanVars, rndVars, now, nmsgs, nposts, message_history, last_message_was, pending,
                   nreqs, supplied>>

\* ask_agent, lines 280-282: no result, the apology is sent.
SendSorry(c) ==
    /\ pc[c] = "none"
    /\ req' = [req EXCEPT ![c].outcome = "sorry", ![c].sent = "sorry"]
    /\ pc' = [pc EXCEPT ![c] = "tail"]
    /\ UNCHANGED <<scanVars, rndVars, now, nmsgs, nposts, message_history, last_message_was, pending,
                   nreqs, supplied>>

\* _agent_run, line 314: agent.run returns a result whose output is falsy; neither
\* branch is taken and the while loop runs again.
RunReturnsNothing(c) ==
    /\ pc[c] = "model"
    /\ pc' = [pc EXCEPT ![c] = "run"]
    /\ UNCHANGED <<scanVars, rndVars, now, nmsgs, nposts, message_history, last_message_was, pending,
                   req, nreqs, supplied>>

\* _agent_run, lines 315-322: the output is a FollowUpQuestion; it is sent and the
\* wait for the requester's reply begins.
RunAsksFollowUp(c) ==
    /\ pc[c] = "model"
    /\ req' = [req EXCEPT ![c].result = "followup", ![c].waitStart = now]
    /\ pc' = [pc EXCEPT ![c] = "wait"]
    /\ UNCHANGED <<scanVars, rndVars, now, nmsgs, nposts, message_history, last_message_was, pending,
                   nreqs, supplied>>

\* _agent_run, lines 323-326: the reply arrived; question and reply are recorded
\* and the loop runs again.
RecordReply(c) ==
    /\ pc[c] = "reply"
    /\ message_history' = [message_history EXCEPT ![c] =
           @ \o <<ModelEntry(req[c].id, req[c].runs, 1),
                  user_msg(req[c].resp)>>]
    /\ req' = [req EXCEPT ![c].followups = @ + 1,
                          ![c].replies = @ \cup {req[c].resp}]
    /\ pc' = [pc EXCEPT ![c] = "run"]
    /\ UNCHANGED <<scanVars, rndVars, now, nmsgs, nposts, last_message_was, pending, nreqs, supplied>>

\* result.output.response of ask_agent, line 284: BasicResponse has the field,
\* FollowUpQuestion (models.py) has only `question`, and reading `response` of it
\* raises AttributeError.
HasResponseField(result) == result = "final"

\* ask_agent, lines 283-284, with the result that _agent_run returned.
FinishWith(c, r, timedOut) ==
    /\ message_history' = [message_history EXCEPT ![c] =
           add_message_to_chat_history(@, new_messages(r.id, r.runs, r.nnew))]
    /\ IF HasResponseField(r.result)
       THEN /\ req' = [req EXCEPT ![c] = [r EXCEPT !.outcome = "answered",
                                                   !.sent = "response",
                                                   !.timedOut = timedOut,
                                                   !.before = message_history[c]]]
            /\ pc' = [pc EXCEPT ![c] = "tail"]
       ELSE /\ req' = [req EXCEPT ![c] = [r EXCEPT !.outcome = "raised",
                                                   !.timedOut = timedOut,
                                                   !.before = message_history[c]]]
            /\ pc' = [pc EXCEPT ![c] = PcAfterRaise(r)]

\* _agent_run, lines 330-332: a final answer; ask_agent records and sends it.
RunAnswers(c, n) ==
    /\ pc[c] = "model"
    /\ FinishWith(c, [req[c] EXCEPT !.result = "final", !.nnew = n], FALSE)
    /\ UNCHANGED <<scanVars, rndVars, now, nmsgs, nposts, last_message_was, pending, nreqs, supplied>>

\* _agent_run, lines 327-329: the wait timed out; the follow-up run is returned
\* and ask_agent goes on with it.
FollowUpTimesOut(c, n) ==
    /\ pc[c] = "wait"
    /\ now - req[c].waitStart >= FollowUpTimeout
    /\ FinishWith(c, [req[c] EXCEPT !.nnew = n], TRUE)
    /\ UNCHANGED <<scanVars, rndVars, now, nmsgs, nposts, last_message_was, pending, nreqs, supplied>>

\* on_message, lines 166-168, for the message that started the request.
OnMessageTail(c) ==
    /\ pc[c] = "tail"
    /\ LET m == req[c].trig IN
        message_history' =
          IF active_conversation(message_history, c) /\ is_valid_message(m)
          THEN [message_history EXCEPT ![c] = Append(@, sys_msg(m, 0))]
          ELSE message_history
    /\ pc' = [pc EXCEPT ![c] = "idle"]
    /\ UNCHANGED <<scanVars, rndVars, now, nmsgs, nposts, last_message_was, pending, req, nreqs, supplied>>

\* A variant of clear_history that empties the list of every channel.
MutClearEveryHistory(h, c) == [d \in (DOMAIN h) \cup {c} |-> <<>>]

\* clear_history: bot.message_history[ctx.channel.id] = []
clear_history(h, c) == SetHistory(h, c, <<>>)

\* The !clear command (clear_history) written by u in c.
ClearHistory(u, c) ==
    /\ Quiet
    /\ LET m == Msg(NextId, c, u, "cmd") IN
        /\ nmsgs' = nmsgs + 1
        /\ pc' = WakePc(m)
        /\ req' = WakeReq(m)
    /\ message_history' = clear_history(message_history, c)
    /\ cleared' = c
    /\ nposts' = nposts + 1
    /\ UNCHANGED <<scanVars, bot_watched_channels, random_event, now, last_message_was,
                   pending, nreqs, supplied>>

\* Some timestamp can still change what the code does: a request is in flight,
\* or a conversation is not yet stale.
TimeMatters ==
    \/ \E c \in Channels : pc[c] # "idle"
    \/ random_event.pc # "idle"
    \/ \E c \in DOMAIN last_message_was : ~IsStale(c)

\* A minute passes.  Handlers that are ready run first, and a wait that is over
\* times out before the clock moves on.
Tick ==
    /\ Quiet
    /\ TimeMatters
    /\ \A c \in Channels : pc[c] = "wait" => now - req[c].waitStart < FollowUpTimeout
    /\ now' = now + 1
    /\ UNCHANGED <<scanVars, rndVars, nmsgs, nposts, message_history, last_message_was, pending, pc,
                   req, nreqs, supplied>>

\* ------------------------------------------------ the random-event branch
\* on_message, lines 136-164, for a plain message m when random.random() < 0.05.

\* Lines 140-142: the channel is not watched; on_message returns, and its last
\* lines (166-168) are not reached.
RandomSkip(m) ==
    /\ m \in pending
    /\ m.author # BotUser
    /\ m.ch \notin bot_watched_channels
    /\ pending' = pending \ {m}
    /\ UNCHANGED <<scanVars, now, nmsgs, nposts, message_history, last_message_was, pc,
                   req, nreqs, supplied, rndVars>>

\* Lines 145-149: the stored history of the channel is not empty; it is given
\* to true_false_agent.run as it is, whatever its age.
RandomEventStored(m) ==
    /\ m \in pending
    /\ m.author # BotUser
    /\ random_event.pc = "idle"
    /\ m.ch \in bot_watched_channels
    /\ History(m.ch) # <<>>
    /\ pending' = pending \ {m}
    /\ random_event' = [pc |-> "judge", m |-> m, hist |-> History(m.ch),
                        stale |-> IsStale(m.ch), error |-> "none"]
    /\ UNCHANGED <<scanVars, now, nmsgs, nposts, message_history, last_message_was, pc,
                   req, nreqs, supplied, bot_watched_channels, cleared>>

\* Lines 145-149: the stored history is an empty list; get_message_history
\* fetches and stores, and the result is given to true_false_agent.run.
RandomEventFetch(m, k) ==
    /\ m \in pending
    /\ m.author # BotUser
    /\ random_event.pc = "idle"
    /\ m.ch \in bot_watched_channels
    /\ m.ch \in DOMAIN message_history
    /\ message_history[m.ch] = <<>>
    /\ pending' = pending \ {m}
    /\ message_history' = [message_history EXCEPT ![m.ch] =
                              get_message_history(message_history, m.ch, k)]
    /\ random_event' = [pc |-> "judge", m |-> m, hist |-> message_history'[m.ch],
                        stale |-> IsStale(m.ch), error |-> "none"]
    /\ UNCHANGED <<scanVars, now, nmsgs, nposts, last_message_was, pc, req, nreqs,
                   supplied, bot_watched_channels, cleared>>

\* Lines 145-146: the dict has no key for the channel; get_message_history
\* reads self.message_history[ctx.channel.id] (line 228) and KeyError leaves
\* on_message.
RandomEventKeyError(m) ==
    /\ m \in pending
    /\ m.author # BotUser
    /\ random_event.pc = "idle"
    /\ m.ch \in bot_watched_channels
    /\ m.ch \notin DOMAIN message_history
    /\ pending' = pending \ {m}
    /\ random_event' = [NoEvent EXCEPT !.m = m, !.error = "KeyError"]
    /\ UNCHANGED <<scanVars, now, nmsgs, nposts, message_history, last_message_was, pc,
                   req, nreqs, supplied, bot_watched_channels, cleared>>

\* Line 152: the message is not worth a reply; on_message goes on to its last
\* lines.
JudgeDeclines ==
    /\ random_event.pc = "judge"
    /\ message_history' = RandomTail(message_history, random_event.m)
    /\ random_event' = NoEvent
    /\ UNCHANGED <<scanVars, now, nmsgs, nposts, last_message_was, pending, pc, req,
                   nreqs, supplied, bot_watched_channels, cleared>>

\* Lines 148-149: true_false_agent.run raises; nothing in on_message catches it.
JudgeRaises ==
    /\ random_event.pc = "judge"
    /\ random_event' = NoEvent
    /\ UNCHANGED <<scanVars, now, nmsgs, nposts, message_history, last_message_was,
                   pending, pc, req, nreqs, supplied, bot_watched_channels, cleared>>

\* Lines 155-159 and _agent_run, lines 298-308: the message is worth a reply.
\* A history that is not empty is passed on (it is the stored list itself, with
\* what was appended to it meanwhile); an empty one makes _agent_run read the
\* stored list again, and fetch if that is empty too.
JudgeAccepts(k) ==
    LET c == random_event.m.ch
        h == IF random_event.hist # <<>> THEN message_history[c]
             ELSE get_message_history(message_history, c, k)
    IN
    /\ random_event.pc = "judge"
    /\ random_event.hist # <<>> \/ message_history[c] = <<>> \/ k = 0
    /\ message_history' = [message_history EXCEPT ![c] = h]
    /\ random_event' = [random_event EXCEPT !.pc = "run", !.hist = h]
    /\ UNCHANGED <<scanVars, now, nmsgs, nposts, last_message_was, pending, pc, req,
                   nreqs, supplied, bot_watched_channels, cleared>>

RandomOutcomes == {"none", "sent", "raised"}

\* Lines 162-168: _agent_run returned.  "none": it returned None, nothing is
\* sent; "sent": the reply is sent; "raised": reading the output raises.  The
\* last lines of on_message follow unless an exception left it.
RandomRunEnds(outcome) ==
    /\ random_event.pc = "run"
    /\ message_history' =
          IF outcome = "raised" THEN message_history
          ELSE RandomTail(message_history, random_event.m)
    /\ random_event' = NoEvent
    /\ UNCHANGED <<scanVars, now, nmsgs, nposts, last_message_was, pending, pc, req,
                   nreqs, supplied, bot_watched_channels, cleared>>

\* --------------------------------------------------- watched-channel scan

\* Messages of the watched channels carry the minute they were written.
ScanMsg(id, c, t, content) == [id |-> id, ch |-> c, t |-> t, content |-> content]

ScanContents   == {"text", "cmd", "embed"}

\* Every class of message that the filter of the scan can meet: "attach" is
\* plain text with an uploaded file, which discord.py lists in
\* message.attachments and not in message.embeds.
FilterContents == {"text", "cmd", "announce", "embed", "attach"}
HasAttachment(m) == m.content = "attach"
WatchedConfigs == {{}, {"general"}, Channels}

Range(s) == {s[i] : i \in DOMAIN s}

\* channel.history(after=...) yields the messages oldest first.
RECURSIVE OldestFirst(_)
OldestFirst(S) ==
    IF S = {} THEN <<>>
    ELSE LET m == CHOOSE x \in S : \A y \in S : x.id <= y.id
         IN  <<m>> \o OldestFirst(S \ {m})

InWindow(c, after) == {m \in posted : m.ch = c /\ m.t > after}

\* The filter of check_watched_channels.
ScanFilter(m, seen) ==
    /\ ~StartsWithPrefix(m)
    /\ ~is_bot_announcement(m)
    /\ m.id \notin Range(seen)
    /\ ~HasEmbeds(m)

\* MemoryHandler.check_watched_channels: one key per watched channel.
check_watched_channels(seen) ==
    [c \in watched_channels |->
        OldestFirst({m \in InWindow(c, now - LookbackMinutes) : ScanFilter(m, seen)})]

\* The ids of a result of check_watched_channels, channel by channel.
IdsOf(w) ==
    LET part(c) == IF c \in DOMAIN w THEN [i \in 1..Len(w[c]) |-> w[c][i].id]
                   ELSE <<>>
    IN  part("general") \o part("random")

ChannelsOf(w) == SelectSeq(<<"general", "random">>, LAMBDA c : c \in DOMAIN w)

\* A variant of add_memories_task without the extend.
MutSeenNotExtended(seen, w) == seen

\* add_memories_task: self.seen_messages.extend(msg.id for ...)
seen_after_scan(seen, w) == seen \o IdsOf(w)

\* One call of add_memories_task.  pc is the await it stands at:
\*   check     check_watched_channels()       presence  change_presence(dnd)
\*   extract   memory_agent.run, per channel  store     memory.add
\*   notify    bot_channel.send(embed)        reset     change_presence(online)
NewPass(id) ==
    [id |-> id, pc |-> "check", msgs |-> [c \in {} |-> <<>>], todo |-> <<>>,
     calls |-> 0, output |-> {}, audit |-> <<>>, allSeen |-> FALSE, seen0 |-> 0,
     at |-> 0, upto |-> 0, failed |-> {}, submitted |-> {},
     addFailed |-> {}]

\* setup_hook: memory_timer sleeps MemoryInterval minutes before its first pass.
ScanStart(w) ==
    /\ posted = {}
    /\ nscan = 0
    /\ seen_messages = <<>>
    /\ watched_channels = w
    /\ timer = [pc |-> "sleep", due |-> MemoryInterval]
    /\ passes = {}
    /\ npasses = 0
    /\ handed = [i \in 1..MaxScanMsgs |-> 0]
    /\ bot_seen_messages = <<>>
    /\ seen_timer = [due |-> SeenInterval]

SetPass(p, q) == (passes \ {p}) \cup {q}

\* The awaits of a pass other than the call of the model take no time: while
\* one is due, or the sleep of the timer is over, no message arrives and the
\* clock stands.
ScanQuiet ==
    /\ \A p \in passes : p.pc = "extract"
    /\ ~(timer.pc = "sleep" /\ now >= timer.due)
    /\ now < seen_timer.due

\* Somebody writes in a watched channel.
PostWatched(c, content) ==
    /\ ScanQuiet
    /\ c \in watched_channels
    /\ posted' = posted \cup {ScanMsg(nscan + 1, c, now, content)}
    /\ nscan' = nscan + 1
    /\ UNCHANGED <<chatVars, seenVars, seen_messages, watched_channels, timer, passes, npasses,
                   handed>>

\* A variant of memory_timer that starts the pass as a task of its own and goes
\* back to sleep without awaiting it.
MutTimerDoesNotAwait(t) == [t EXCEPT !.due = t.due + MemoryInterval]

\* memory_timer: await bot.memory_handler.add_memories_task()
TimerAfterFire(t) == [t EXCEPT !.pc = "await"]

\* memory_timer: back to asyncio.sleep(10 * 60) once the pass has returned.
TimerAfterPass(t) ==
    IF t.pc = "await" THEN [pc |-> "sleep", due |-> now + MemoryInterval] ELSE t

\* An exception of the pass leaves the loop of memory_timer: the task is over.
TimerAfterRaise(t) == IF t.pc = "await" THEN [t EXCEPT !.pc = "dead"] ELSE t

\* The sleep of memory_timer is over: add_memories_task is called.
TimerFires ==
    /\ timer.pc = "sleep"
    /\ now >= timer.due
    /\ npasses' = npasses + 1
    /\ passes' = passes \cup {NewPass(npasses + 1)}
    /\ timer' = TimerAfterFire(timer)
    /\ UNCHANGED <<chatVars, seenVars, posted, nscan, seen_messages, watched_channels, handed>>

\* add_memories_task, `if not watched_msgs: return`: the dict has no key.
ScanFindsNothing(p) ==
    /\ p.pc = "check"
    /\ DOMAIN check_watched_channels(seen_messages) = {}
    /\ passes' = passes \ {p}
    /\ timer' = TimerAfterPass(timer)
    /\ UNCHANGED <<chatVars, seenVars, posted, nscan, seen_messages, watched_channels, npasses,
                   handed>>

\* add_memories_task up to change_presence: the ids join seen_messages.
ScanReturns(p) ==
    LET w == check_watched_channels(seen_messages) IN
    /\ p.pc = "check"
    /\ DOMAIN w # {}
    /\ seen_messages' = seen_after_scan(seen_messages, w)
    /\ passes' = SetPass(p, [p EXCEPT
          !.pc = "presence", !.msgs = w, !.seen0 = Len(seen_messages),
          !.at = now, !.upto = nscan,
          !.allSeen = \A c \in watched_channels :
                         \A m \in InWindow(c, now - LookbackMinutes) :
                            m.id \in Range(seen_messages)])
    /\ UNCHANGED <<chatVars, seenVars, posted, nscan, watched_channels, timer, npasses, handed>>

\* An await of add_memories_task outside any try raises.
PassRaises(p) ==
    /\ p.pc \in {"check", "presence", "notify", "reset"}
    /\ passes' = passes \ {p}
    /\ timer' = TimerAfterRaise(timer)
    /\ UNCHANGED <<chatVars, seenVars, posted, nscan, seen_messages, watched_channels, npasses,
                   handed>>

\* change_presence returned: add_memories hands the dict to check_facts.
HandToCheckFacts(p) ==
    /\ p.pc = "presence"
    /\ handed' = [i \in DOMAIN handed |->
                    IF i \in Range(IdsOf(p.msgs)) THEN handed[i] + 1 ELSE handed[i]]
    /\ passes' = SetPass(p, [p EXCEPT !.pc = "extract", !.todo = ChannelsOf(p.msgs)])
    /\ UNCHANGED <<chatVars, seenVars, posted, nscan, seen_messages, watched_channels, timer,
                   npasses>>

WithFacts(output) == {o.ch : o \in {x \in output : x.facts}}

\* add_memories: the channels of fact_res whose FactResponse has facts, in the
\* order of the dict.
FactChannels(w, output) ==
    SelectSeq(ChannelsOf(w), LAMBDA c : c \in WithFacts(output))

\* check_facts goes on with the next channel of the dict; after the last one,
\* add_memories goes to the first memory.add, or returns without an await when
\* no channel has facts.
PcAfterExtract(todo, output) ==
    IF todo # <<>> THEN "extract"
    ELSE IF WithFacts(output) = {} THEN "reset" ELSE "store"

\* A variant of check_facts that gives up the batch at the first failed run.
MutAbandonBatchOnFailure(todo, out) == IF out = "raise" THEN <<>> ELSE Tail(todo)

\* check_facts: the for loop goes to the next channel whatever the outcome.
TodoAfterExtract(todo, out) == Tail(todo)

\* check_facts: memory_agent.run for the next channel of the dict.  out is
\* "facts", "nofacts" or "raise"; a raise is logged and leaves no output.
Extract(p, out) ==
    LET c      == Head(p.todo)
        rest   == TodoAfterExtract(p.todo, out)
        output == IF out = "raise" THEN p.output
                  ELSE p.output \cup {[ch |-> c, facts |-> out = "facts"]}
        next   == PcAfterExtract(rest, output)
    IN
    /\ p.pc = "extract"
    /\ passes' = SetPass(p, [p EXCEPT
          !.calls = @ + 1,
          !.todo = IF next = "store" THEN FactChannels(p.msgs, output) ELSE rest,
          !.output = output,
          !.failed = IF out = "raise" THEN @ \cup {c} ELSE @,
          !.pc = next])
    /\ UNCHANGED <<chatVars, seenVars, posted, nscan, seen_messages, watched_channels, timer,
                   npasses, handed>>

PcAfterStore(todo, audit) ==
    IF todo # <<>> THEN "store" ELSE IF audit = <<>> THEN "reset" ELSE "notify"

\* A variant of add_memories that returns at the first failed memory.add.
MutAbandonStoreOnFailure(todo, ok) == IF ok THEN Tail(todo) ELSE <<>>

\* add_memories: the for loop goes to the next channel whatever the outcome.
TodoAfterStore(todo, ok) == Tail(todo)

\* add_memories: memory.add for the next channel with facts; ok tells whether
\* it succeeded.  A failed add is logged and adds nothing to results.
Store(p, ok) ==
    LET c     == Head(p.todo)
        rest  == TodoAfterStore(p.todo, ok)
        audit == IF ok THEN Append(p.audit, c) ELSE p.audit
    IN
    /\ p.pc = "store"
    /\ passes' = SetPass(p, [p EXCEPT
          !.submitted = @ \cup {c},
          !.addFailed = IF ok THEN @ ELSE @ \cup {c},
          !.todo = rest,
          !.audit = audit,
          !.pc = PcAfterStore(rest, audit)])
    /\ UNCHANGED <<chatVars, seenVars, posted, nscan, seen_messages, watched_channels, timer,
                   npasses, handed>>

\* add_memories_task: the embeds are sent to the bot channel.
Notify(p) ==
    /\ p.pc = "notify"
    /\ passes' = SetPass(p, [p EXCEPT !.pc = "reset"])
    /\ UNCHANGED <<chatVars, seenVars, posted, nscan, seen_messages, watched_channels, timer,
                   npasses, handed>>

\* add_memories_task: the last change_presence returned, and so does the pass.
PassReturns(p) ==
    /\ p.pc = "reset"
    /\ passes' = passes \ {p}
    /\ timer' = TimerAfterPass(timer)
    /\ UNCHANGED <<chatVars, seenVars, posted, nscan, seen_messages, watched_channels, npasses,
                   handed>>

\* seen_messages_timer: the sleep of 30 minutes is over; bot.seen_messages is
\* set to a new empty list and the task sleeps again.
SeenTimerFires ==
    /\ now >= seen_timer.due
    /\ bot_seen_messages' = <<>>
    /\ seen_timer' = [due |-> now + SeenInterval]
    /\ UNCHANGED <<chatVars, memVars, posted, nscan, seen_messages, watched_channels, timer,
                   passes, npasses, handed>>

\* A minute passes.
ScanTick ==
    /\ ScanQuiet
    /\ now' = now + 1
    /\ UNCHANGED <<nmsgs, nposts, message_history, last_message_was, pending, pc, req,
                   nreqs, supplied, rndVars, scanVars>>

\* ------------------------------------------------- the consolidation pass
\* memory.add of add_memories is CustomAsyncMemory.add (AIBot/asyncmemory.py):
\* Similarity Resolver, Reconciliation Planner and Memory Mutator.

Texts == {"sunA", "sunB", "dino"}
TextOrder == <<"sunA", "sunB", "dino">>

\* Two texts about the same subject are near each other in embedding distance.
Subject(t) == IF t = "dino" THEN "dino" ELSE "sun"

\* The result cap of the query of the Similarity Resolver.
NeighborCap == 5

\* The indexes a pass can find: up to MaxStored facts with any texts.
Stores == UNION {[1..n -> Texts] : n \in 0..MaxStored}

RECURSIVE Ascending(_)
Ascending(S) ==
    IF S = {} THEN <<>>
    ELSE LET m == CHOOSE x \in S : \A y \in S : x <= y
         IN  <<m>> \o Ascending(S \ {m})

FirstN(s, n) == SubSeq(s, 1, IF Len(s) < n THEN Len(s) ELSE n)

\* Similarity Resolver: the nearest facts of candidate c, nearest first.
Neighborhood(ix, c) ==
    LET exact == {f \in DOMAIN ix : ix[f] = c}
        near  == {f \in DOMAIN ix : ix[f] # c /\ Subject(ix[f]) = Subject(c)}
    IN  FirstN(Ascending(exact) \o Ascending(near), NeighborCap)

\* A variant of the merge that keeps a fact once per neighborhood it is in.
MutNoDedupe(s) == s

\* The neighborhoods merged by fact identifier: each fact once.
RECURSIVE Dedupe(_)
Dedupe(s) ==
    IF s = <<>> THEN <<>>
    ELSE LET r == Dedupe(SubSeq(s, 1, Len(s) - 1))
             x == s[Len(s)]
         IN  IF x \in Range(r) THEN r ELSE Append(r, x)

\* The temp-id table: temp id t stands for the fact table[t + 1].
TempIds(table) == 0..(Len(table) - 1)
FactOf(table, t) == table[t + 1]

\* No memory.add call is in progress.
NoMem == [pc |-> "idle", cands |-> {}, waiting |-> {}, found |-> <<>>,
          table |-> <<>>, decisions |-> <<>>, ops |-> {}, pending |-> {},
          fails |-> {}, audit |-> {}, index0 |-> <<>>]

\* No reaction was added yet.
NoReaction == [user |-> "alice", msg |-> "none", emoji |-> "none"]

\* No delete_memory command was invoked yet.
NoDialog == [pc |-> "idle", author |-> "alice", text |-> "sunA", entry |-> 0,
             found |-> "sunA", start |-> 0, reaction |-> NoReaction,
             outcome |-> "none"]

\* No search_memory command was invoked yet.
NoPager == [pc |-> "idle", author |-> "alice", results |-> 0, current_chunk |-> 0,
            shown |-> 0, msg |-> FALSE, outcome |-> "none"]

\* update_message_history was not called.
NoUpdate == [pc |-> "idle", history |-> <<>>, new |-> <<>>, max_length |-> 0,
             out |-> <<>>]

\* The pages of the encyclopedia the crawl can meet.
Titles == {"A", "B", "C"}
TitleOrder == <<"A", "B", "C">>

\* crawl_wikipedia was not called.  turns is the number of iterations of its
\* loop so far, modulo 2.
NoCrawl == [pc |-> "idle", depth |-> 1, max_pages |-> 1,
            site |-> [t \in Titles |-> [kind |-> "missing", links |-> {}, option |-> "none"]],
            queue |-> <<>>, visited |-> {}, pages_out |-> <<>>, fetched |-> {},
            turns |-> 0]

\* No command and no tool call is in flight.
CmdStart ==
    /\ dialog = NoDialog
    /\ pager = NoPager
    /\ umh = NoUpdate
    /\ crawl = NoCrawl

MemStart(ix) ==
    /\ index = ix
    /\ mem = NoMem
    /\ CmdStart

\* memory.add is called with the candidates of one channel.
StartPass(cands) ==
    /\ mem.pc = "idle"
    /\ mem' = [mem EXCEPT !.pc = "resolve", !.cands = cands, !.waiting = cands]
    /\ UNCHANGED <<chatVars, posted, nscan, seen_messages, watched_channels, timer,
                   passes, npasses, handed, bot_seen_messages, seen_timer, index, cmdVars>>

\* The resolver call of candidate c completes; after the last one the table
\* is assembled.
Resolve(c) ==
    LET found == mem.found \o Neighborhood(index, c)
        last  == mem.waiting = {c}
    IN
    /\ mem.pc = "resolve"
    /\ c \in mem.waiting
    /\ mem' = [mem EXCEPT !.waiting = @ \ {c},
                          !.found = found,
                          !.table = IF last THEN Dedupe(found) ELSE @,
                          !.pc = IF last THEN "plan" ELSE @]
    /\ UNCHANGED <<chatVars, posted, nscan, seen_messages, watched_channels, timer,
                   passes, npasses, handed, bot_seen_messages, seen_timer, index, cmdVars>>

Decision(ev, tid, text) == [ev |-> ev, tid |-> tid, text |-> text]

\* Reconciliation Planner, one candidate: NONE when an existing fact of the
\* table has the text of the candidate; otherwise the model may answer with
\* any action, against any temp id of the table or one it made up.
Options(ix, table, c) ==
    LET covered == {t \in TempIds(table) : ix[FactOf(table, t)] = c} IN
    IF covered # {}
    THEN {<<Decision("NONE", t, c)>> : t \in covered}
    ELSE {<<Decision("ADD", -1, c)>>}
         \cup UNION {{<<Decision("UPDATE", t, c)>>,
                      <<Decision("DELETE", t, c), Decision("ADD", -1, c)>>,
                      <<Decision("NONE", t, c)>>} : t \in 0..Len(table)}

RECURSIVE DecisionLists(_, _, _)
DecisionLists(ix, table, cs) ==
    IF cs = <<>> THEN {<<>>}
    ELSE {a \o b : a \in Options(ix, table, Head(cs)),
                   b \in DecisionLists(ix, table, Tail(cs))}

\* Reconciliation Planner: one decision list for the pass; an unparseable
\* answer is the empty list.
PlannerOutputs(ix, table, cands) ==
    {<<>>} \cup DecisionLists(ix, table, SelectSeq(TextOrder, LAMBDA c : c \in cands))

KnownId(table, d) == d.tid \in TempIds(table)

\* A variant of the Mutator that gives up the list at the first unknown id.
MutUnknownIdAbortsPass(ds, table) ==
    {i \in DOMAIN ds :
        /\ ds[i].ev = "ADD" \/ (ds[i].ev \in {"UPDATE", "DELETE"} /\ KnownId(table, ds[i]))
        /\ \A j \in 1..i : ds[j].ev = "ADD" \/ KnownId(table, ds[j])}

\* A variant of the Mutator that writes the fact of a NONE decision again.
MutNoneIsDispatched(ds, table) ==
    {i \in DOMAIN ds : ds[i].ev = "ADD" \/ KnownId(table, ds[i])}

\* Memory Mutator: the decisions that become an index operation.  NONE is no
\* operation, and a decision with a temp id that is not in the table is dropped.
Dispatched(ds, table) ==
    {i \in DOMAIN ds :
        ds[i].ev = "ADD" \/ (ds[i].ev \in {"UPDATE", "DELETE"} /\ KnownId(table, ds[i]))}

\* The planner has answered and the Mutator dispatches the operations; fails
\* are the operations that the index will reject.
Plan(ds, fails) ==
    LET ops == Dispatched(ds, mem.table) IN
    /\ mem.pc = "plan"
    /\ fails \subseteq ops
    /\ mem' = [mem EXCEPT !.decisions = ds, !.ops = ops, !.pending = ops,
                          !.fails = fails, !.index0 = index,
                          !.pc = IF ops = {} THEN "done" ELSE "mutate"]
    /\ UNCHANGED <<chatVars, posted, nscan, seen_messages, watched_channels, timer,
                   passes, npasses, handed, bot_seen_messages, seen_timer, index, cmdVars>>

Put(ix, f, t) == [g \in (DOMAIN ix) \cup {f} |-> IF g = f THEN t ELSE ix[g]]
Remove(ix, f) == [g \in (DOMAIN ix) \ {f} |-> ix[g]]

\* A variant of the index that hands out the next free identifier.
MutNextFreeId(ix, i) ==
    CHOOSE f \in (MaxStored + 1)..(MaxStored + Cardinality(DOMAIN ix) + 1) :
        /\ f \notin DOMAIN ix
        /\ \A g \in (MaxStored + 1)..(f - 1) : g \in DOMAIN ix

\* The identifier of the fact that the i-th decision creates: identifiers are
\* opaque and never used twice.
NewId(ix, i) == MaxStored + i

\* A variant of the index whose update writes a fact that is not there.
MutUpdateUpserts(ix, f) == TRUE

\* An update or delete of a fact that is not in the index fails.
Applies(ix, f) == f \in DOMAIN ix

\* One index operation of the Mutator on index ix: the index after it and its
\* audit entry; a failed operation changes nothing and has no entry.
Effect(ix, d, i, table, fails) ==
    LET f  == IF d.ev = "ADD" THEN NewId(ix, i) ELSE FactOf(table, d.tid)
        ok == i \notin fails /\ (d.ev = "ADD" \/ Applies(ix, f))
        old == IF f \in DOMAIN ix THEN ix[f] ELSE ""
    IN  [index |-> IF ~ok THEN ix
                   ELSE IF d.ev = "DELETE" THEN Remove(ix, f)
                   ELSE Put(ix, f, d.text),
         audit |-> IF ~ok THEN {}
                   ELSE {[dec |-> i, action |-> d.ev, id |-> f,
                          text |-> IF d.ev = "DELETE" THEN old ELSE d.text,
                          previous |-> IF d.ev = "UPDATE" THEN old ELSE ""]}]

\* One operation of the Mutator completes; after the last one the audit list
\* is returned.
Complete(i) ==
    LET e == Effect(index, mem.decisions[i], i, mem.table, mem.fails) IN
    /\ mem.pc = "mutate"
    /\ i \in mem.pending
    /\ index' = e.index
    /\ mem' = [mem EXCEPT !.pending = @ \ {i},
                          !.audit = @ \cup e.audit,
                          !.pc = IF mem.pending = {i} THEN "done" ELSE @]
    /\ UNCHANGED <<chatVars, posted, nscan, seen_messages, watched_channels, timer,
                   passes, npasses, handed, bot_seen_messages, seen_timer, cmdVars>>

ExtractOutcomes == {"facts", "nofacts", "raise"}

NewCounts == {2, MaxNew}
Kinds     == {"cmd", "mention"}

Init == ChatInit /\ RandomStart({}) /\ ScanStart({}) /\ MemStart(<<>>)

\* Every operation, with the counters kept within the bounds of Spec.
Next ==
    \/ \E u \in Authors, c \in Channels, x \in PlainContents :
          nposts < MaxPosts /\ PostMessage(u, c, x)
    \/ \E m \in pending : OnMessage(m)
    \/ \E m \in pending : RandomSkip(m)
    \/ \E u \in Requesters, c \in Channels, kind \in Kinds, k \in FetchCounts :
          nreqs < MaxReqs /\ AskAgent(u, c, kind, k)
    \/ \E c \in Channels : SearchDone(c)
    \/ \E c \in Channels : SearchFails(c)
    \/ \E c \in Channels, k \in FetchCounts : req[c].runs < MaxRuns /\ StartRun(c, k)
    \/ \E c \in Channels : RunRaises(c)
    \/ \E c \in Channels : SendSorry(c)
    \/ \E c \in Channels : RunReturnsNothing(c)
    \/ \E c \in Channels : RunAsksFollowUp(c)
    \/ \E c \in Channels : RecordReply(c)
    \/ \E c \in Channels, n \in NewCounts : RunAnswers(c, n)
    \/ \E c \in Channels, n \in NewCounts : FollowUpTimesOut(c, n)
    \/ \E c \in Channels : OnMessageTail(c)
    \/ \E u \in Users, c \in Channels : nposts < MaxPosts /\ ClearHistory(u, c)
    \/ now < MaxTime /\ Tick

Spec == Init /\ [][Next]_vars

\* The request loop alone: one request in "general", started from the state
\* after construction, in which every run of the model either asks a follow-up
\* question or ends the request, and the requester writes only replies.
LoopInit == FreshInit /\ RandomStart({}) /\ ScanStart({}) /\ MemStart(<<>>)

LoopNext ==
    \/ \E u \in Requesters, x \in PlainContents :
          nposts < LoopPosts /\ pc["general"] = "wait" /\ PostMessage(u, "general", x)
    \/ \E m \in pending : OnMessage(m)
    \/ \E m \in pending : RandomSkip(m)
    \/ \E u \in Requesters, kind \in Kinds, k \in FetchCounts :
          nreqs < 1 /\ AskAgent(u, "general", kind, k)
    \/ SearchDone("general")
    \/ SearchFails("general")
    \/ \E k \in FetchCounts : req["general"].runs < LoopRuns /\ StartRun("general", k)
    \/ RunRaises("general")
    \/ SendSorry("general")
    \/ RunAsksFollowUp("general")
    \/ RecordReply("general")
    \/ \E n \in NewCounts : RunAnswers("general", n)
    \/ \E n \in NewCounts : FollowUpTimesOut("general", n)
    \/ OnMessageTail("general")
    \/ now < LoopTime /\ Tick

SpecLoop == LoopInit /\ [][LoopNext]_vars

\* The random-event branch: "general" is watched, nobody sends a request, and
\* the bot starts either fresh or with the history of an earlier session.  The
\* history is cleared only while no random event is in flight.
RandInit == ChatInit /\ RandomStart({"general"}) /\ ScanStart({"general"}) /\ MemStart(<<>>)

RandNext ==
    \/ \E u \in Authors, c \in Channels, x \in PlainContents :
          nposts < MaxRndPosts /\ PostMessage(u, c, x)
    \/ \E m \in pending : OnMessage(m)
    \/ \E m \in pending : RandomEventStored(m)
    \/ \E m \in pending, k \in FetchCounts : RandomEventFetch(m, k)
    \/ \E m \in pending : RandomEventKeyError(m)
    \/ JudgeDeclines
    \/ JudgeRaises
    \/ \E k \in FetchCounts : JudgeAccepts(k)
    \/ \E outcome \in RandomOutcomes : RandomRunEnds(outcome)
    \/ \E u \in Users, c \in Channels :
          nposts < MaxRndPosts /\ random_event.pc = "idle" /\ ClearHistory(u, c)
    \/ now < MaxRndTime /\ Tick

SpecRandom == RandInit /\ [][RandNext]_vars

\* The scan alone: nobody talks to the bot, the timer runs its passes over the
\* channels that the config names.
ScanInit ==
    /\ FreshInit /\ MemStart(<<>>)
    /\ \E w \in WatchedConfigs : RandomStart(w) /\ ScanStart(w)

ScanNext ==
    \/ \E c \in Channels, x \in ScanContents :
          nscan < MaxScanMsgs /\ PostWatched(c, x)
    \/ npasses < MaxPasses /\ TimerFires
    \/ \E p \in passes : ScanFindsNothing(p)
    \/ \E p \in passes : ScanReturns(p)
    \/ \E p \in passes : PassRaises(p)
    \/ \E p \in passes : HandToCheckFacts(p)
    \/ \E p \in passes, out \in ExtractOutcomes : Extract(p, out)
    \/ \E p \in passes, ok \in BOOLEAN : Store(p, ok)
    \/ \E p \in passes : Notify(p)
    \/ \E p \in passes : PassReturns(p)
    \/ now < MaxScanTime /\ ScanTick

SpecScan == ScanInit /\ [][ScanNext]_vars

\* The scan over half an hour: one watched channel, and both timers of
\* setup_hook.
SeenInit == FreshInit /\ RandomStart({"general"}) /\ ScanStart({"general"}) /\ MemStart(<<>>)

SeenNext ==
    \/ \E x \in ScanContents : nscan < MaxSeenMsgs /\ PostWatched("general", x)
    \/ npasses < MaxPasses /\ TimerFires
    \/ \E p \in passes : ScanReturns(p)
    \/ \E p \in passes : PassRaises(p)
    \/ \E p \in passes : HandToCheckFacts(p)
    \/ \E p \in passes, out \in ExtractOutcomes : Extract(p, out)
    \/ \E p \in passes, ok \in BOOLEAN : Store(p, ok)
    \/ \E p \in passes : Notify(p)
    \/ \E p \in passes : PassReturns(p)
    \/ SeenTimerFires
    \/ now < MaxSeenTime /\ ScanTick

SpecSeen == SeenInit /\ [][SeenNext]_vars

\* The first pass over two watched channels, with messages of every class.
FilterInit == FreshInit /\ RandomStart(Channels) /\ ScanStart(Channels) /\ MemStart(<<>>)

FilterNext ==
    \/ \E c \in Channels, x \in FilterContents :
          nscan < MaxFilterMsgs /\ PostWatched(c, x)
    \/ npasses < 1 /\ TimerFires
    \/ \E p \in passes : ScanReturns(p)
    \/ \E p \in passes : PassRaises(p)
    \/ \E p \in passes : HandToCheckFacts(p)
    \/ \E p \in passes, out \in ExtractOutcomes : Extract(p, out)
    \/ \E p \in passes, ok \in BOOLEAN : Store(p, ok)
    \/ \E p \in passes : Notify(p)
    \/ \E p \in passes : PassReturns(p)
    \/ now < MaxFilterTime /\ ScanTick

SpecFilter == FilterInit /\ [][FilterNext]_vars

\* One memory.add call on an index that holds up to MaxStored facts.
MemoryInit ==
    /\ FreshInit /\ RandomStart({}) /\ ScanStart({})
    /\ \E ix \in Stores : MemStart(ix)

MemoryNext ==
    \/ \E cands \in SUBSET Texts :
          cands # {} /\ Cardinality(cands) <= MaxCands /\ StartPass(cands)
    \/ \E c \in Texts : Resolve(c)
    \/ /\ mem.pc = "plan"
       /\ \E ds \in PlannerOutputs(index, mem.table, mem.cands),
             fails \in SUBSET (1..(2 * MaxCands)) :
             Cardinality(fails) <= MaxFails /\ Plan(ds, fails)
    \/ \E i \in 1..(2 * MaxCands) : Complete(i)

SpecMemory == MemoryInit /\ [][MemoryNext]_vars

\* ------------------------------------------------ the watch and unwatch commands
MaxWatchTime == 11
MaxWatchMsgs == 1

\* add_watched_channel: the channel joins AIBot.watched_channels unless it is
\* there already.
add_watched_channel(w, c) == IF c \notin w THEN w \cup {c} ELSE w

\* remove_watched_channel: the channel leaves AIBot.watched_channels if it is
\* there.
remove_watched_channel(w, c) == IF c \in w THEN w \ {c} ELSE w

\* The watch command in channel c.  The list of the bot is the one object the
\* command changes; the set of the memory handler is a copy made in
\* MemoryHandler.__init__.
Watch(c) ==
    /\ ScanQuiet
    /\ bot_watched_channels' = add_watched_channel(bot_watched_channels, c)
    /\ UNCHANGED <<scanVars, now, nmsgs, nposts, message_history, last_message_was,
                   pending, pc, req, nreqs, supplied, random_event, cleared>>

\* The unwatch command in channel c.
Unwatch(c) ==
    /\ ScanQuiet
    /\ bot_watched_channels' = remove_watched_channel(bot_watched_channels, c)
    /\ UNCHANGED <<scanVars, now, nmsgs, nposts, message_history, last_message_was,
                   pending, pc, req, nreqs, supplied, random_event, cleared>>

\* The bot starts with any list of watched channels in its config; users watch
\* and unwatch channels while the memory timer runs its cycles.
WatchInit ==
    /\ FreshInit /\ MemStart(<<>>)
    /\ \E w \in SUBSET Channels : RandomStart(w) /\ ScanStart(w)

WatchNext ==
    \/ \E c \in Channels : Watch(c)
    \/ \E c \in Channels : Unwatch(c)
    \/ \E c \in Channels : nscan < MaxWatchMsgs /\ PostWatched(c, "text")
    \/ npasses < 1 /\ TimerFires
    \/ \E p \in passes : ScanFindsNothing(p)
    \/ \E p \in passes : ScanReturns(p)
    \/ \E p \in passes : PassRaises(p)
    \/ \E p \in passes : HandToCheckFacts(p)
    \/ \E p \in passes, out \in ExtractOutcomes : Extract(p, out)
    \/ \E p \in passes, ok \in BOOLEAN : Store(p, ok)
    \/ \E p \in passes : Notify(p)
    \/ \E p \in passes : PassReturns(p)
    \/ now < MaxWatchTime /\ ScanTick

SpecWatch == WatchInit /\ [][WatchNext]_vars

\* ------------------------------------------------ the delete_memory command
MaxDeleteTime == 3
ConfirmTimeout == 1     \* wait_for("reaction_add", timeout=60.0), in minutes

\* config["DISCORD"]["bot_admins"]
bot_admins == {"alice"}

\* The reactions a user can add: the two of the dialogue and any other one;
\* on the confirmation message of the dialogue or on another message.
Emojis == {"confirm", "cancel", "other"}
ReactionTargets == {"dialog", "elsewhere"}

\* memory.search(query, limit=1): the index answers with its nearest entry,
\* whichever it is; 0 stands for an empty result list.
TopResults(ix) == IF DOMAIN ix = {} THEN {0} ELSE DOMAIN ix

\* memory.delete(id)
memory_delete(ix, f) == Remove(ix, f)

\* What is in force of the decorator: is_admin is a coroutine function, so
\* @is_admin calls it with the Command that bot.command has already registered
\* and binds the name to the coroutine object; the registered callback is the
\* plain delete_memory, invoked for every author.
MayInvoke(u) == TRUE

\* A variant of the test of lines 471-472 that accepts any top result.
MutAnyTopResult(text, found) == TRUE

\* Lines 471-472: memory_content != memory["results"][0].get("memory", "")
ExactMatch(text, found) == text = found

\* A variant of the check of the dialogue that accepts the reaction of anybody.
MutAnybodyConfirms(d, r) ==
    /\ r.msg = "dialog"
    /\ r.emoji \in {"confirm", "cancel"}

\* check(reaction, user) of delete_memory
reaction_check(d, r) ==
    /\ r.user = d.author
    /\ r.msg = "dialog"
    /\ r.emoji \in {"confirm", "cancel"}

DialogFrame ==
    UNCHANGED <<chatVars, posted, nscan, seen_messages, watched_channels, timer, passes,
                npasses, handed, bot_seen_messages, seen_timer, mem, pager, toolVars>>

\* delete_memory up to wait_for: the search, the comparison and the
\* confirmation message with its two reactions.
DeleteMemory(u, text, f) ==
    /\ dialog.pc = "idle"
    /\ MayInvoke(u)
    /\ f \in TopResults(index)
    /\ dialog' =
         IF f = 0
         THEN [NoDialog EXCEPT !.author = u, !.text = text, !.outcome = "no result"]
         ELSE IF ~ExactMatch(text, index[f])
         THEN [NoDialog EXCEPT !.author = u, !.text = text, !.entry = f,
                               !.found = index[f], !.outcome = "no match"]
         ELSE [NoDialog EXCEPT !.pc = "wait", !.author = u, !.text = text,
                               !.entry = f, !.found = index[f], !.start = now]
    /\ UNCHANGED index
    /\ DialogFrame

\* Somebody adds a reaction while the dialogue waits.  A reaction the check
\* rejects leaves the command waiting; the confirm reaction deletes the entry
\* (ok = FALSE: memory.delete raises, and the exception leaves the command);
\* the cancel reaction ends the command.
React(u, target, emoji, ok) ==
    LET r == [user |-> u, msg |-> target, emoji |-> emoji] IN
    /\ dialog.pc = "wait"
    /\ now - dialog.start < ConfirmTimeout
    /\ IF ~reaction_check(dialog, r)
       THEN /\ dialog' = [dialog EXCEPT !.reaction = r]
            /\ UNCHANGED index
       ELSE IF emoji = "confirm"
       THEN /\ dialog' = [dialog EXCEPT !.pc = "idle", !.reaction = r,
                             !.outcome = IF ok THEN "deleted" ELSE "raised"]
            /\ index' = IF ok /\ dialog.entry \in DOMAIN index
                        THEN memory_delete(index, dialog.entry) ELSE index
       ELSE /\ dialog' = [dialog EXCEPT !.pc = "idle", !.reaction = r,
                             !.outcome = "cancelled"]
            /\ UNCHANGED index
    /\ DialogFrame

\* asyncio.TimeoutError: no reaction passed the check within the timeout.
ConfirmTimesOut ==
    /\ dialog.pc = "wait"
    /\ now - dialog.start >= ConfirmTimeout
    /\ dialog' = [dialog EXCEPT !.pc = "idle", !.outcome = "timeout"]
    /\ UNCHANGED index
    /\ DialogFrame

\* Time passes; a dialogue whose timeout is over ends before the clock moves on.
DeleteTick ==
    /\ dialog.pc = "wait" => now - dialog.start < ConfirmTimeout
    /\ now' = now + 1
    /\ UNCHANGED <<nmsgs, nposts, message_history, last_message_was, pending, pc, req,
                   nreqs, supplied, rndVars, scanVars>>

\* The index holds any facts; users invoke delete_memory and react.
DeleteInit ==
    /\ FreshInit /\ RandomStart({}) /\ ScanStart({})
    /\ \E ix \in Stores : MemStart(ix)

DeleteNext ==
    \/ \E u \in Users, text \in Texts, f \in 0..MaxStored : DeleteMemory(u, text, f)
    \/ \E u \in Users, target \in ReactionTargets, emoji \in Emojis, ok \in BOOLEAN :
          React(u, target, emoji, ok)
    \/ ConfirmTimesOut
    \/ now < MaxDeleteTime /\ DeleteTick

SpecDelete == DeleteInit /\ [][DeleteNext]_vars

\* ------------------------------------------------ update_message_history
MaxHistLen == 3
MaxNewLen == 2
MaxMaxLength == 3

\* The messages the two lists are made of.
Items == {"a", "b", "c"}
SeqsUpTo(n) == UNION {[1..k -> Items] : k \in 0..n}

\* The slice s[-n:] for n >= 0: the last n entries, and the whole list for
\* n = 0, since -0 is 0.
LastSlice(s, n) ==
    IF n = 0 \/ n >= Len(s) THEN s ELSE SubSeq(s, Len(s) - n + 1, Len(s))

\* [m for m in new if m not in history]
NotIn(history, new) == SelectSeq(new, LAMBDA m : m \notin Range(history))

\* AIBot.update_message_history
update_message_history(history, new, max_length) ==
    IF Len(history) > max_length
    THEN LastSlice(history, max_length)
    ELSE history \o NotIn(history, new)

\* The call returns.
UpdateReturns ==
    /\ umh.pc = "call"
    /\ umh' = [umh EXCEPT !.pc = "done",
                 !.out = update_message_history(umh.history, umh.new, umh.max_length)]
    /\ UNCHANGED <<chatVars, posted, nscan, seen_messages, watched_channels, timer,
                   passes, npasses, handed, bot_seen_messages, seen_timer, index, mem,
                   dialog, pager, crawl>>

\* One call with any history, any new messages and any max_length.
UpdateInit ==
    /\ FreshInit /\ RandomStart({}) /\ ScanStart({})
    /\ index = <<>> /\ mem = NoMem
    /\ dialog = NoDialog /\ pager = NoPager /\ crawl = NoCrawl
    /\ \E h \in SeqsUpTo(MaxHistLen), n \in SeqsUpTo(MaxNewLen), k \in 0..MaxMaxLength :
          umh = [NoUpdate EXCEPT !.pc = "call", !.history = h, !.new = n, !.max_length = k]

UpdateNext == UpdateReturns

SpecUpdate == UpdateInit /\ [][UpdateNext]_vars

\* ------------------------------------------------ crawl_wikipedia
MaxDepth == 2
MaxPages == 3

\* What _fetch_page does for a title: wikipedia.PageError ("missing"),
\* wikipedia.DisambiguationError with e.options[0] = option, or no option at
\* all ("disambig"), or a page with its links ("page").
Behaviours ==
    {[kind |-> "missing", links |-> {}, option |-> "none"]}
    \cup {[kind |-> "disambig", links |-> {}, option |-> o] : o \in Titles \cup {"none"}}
    \cup {[kind |-> "page", links |-> L, option |-> "none"] : L \in SUBSET Titles}
Sites == [Titles -> Behaviours]

\* An entry of queue: (title, depth_so_far)
Entry(t, d) == [t |-> t, d |-> d]

\* page.links as a list, and the entries the loop of lines 192-194 appends.
LinkList(L) == SelectSeq(TitleOrder, LAMBDA t : t \in L)
LinkEntries(L, visited, d) ==
    LET new == SelectSeq(LinkList(L), LAMBDA t : t \notin visited)
    IN  [i \in 1..Len(new) |-> Entry(new[i], d + 1)]

\* Line 191: if d + 1 <= req.depth
EnqueuesLinks(d, depth) == d + 1 <= depth

\* Line 176: if title in visited or d > req.depth
Skipped(c, e) == e.t \in c.visited \/ e.d > c.depth

\* Line 173: while queue and len(visited) < req.max_pages
Looping(c) == c.pc = "loop" /\ c.queue # <<>> /\ Cardinality(c.visited) < c.max_pages

CrawlFrame ==
    UNCHANGED <<chatVars, posted, nscan, seen_messages, watched_channels, timer, passes,
                npasses, handed, bot_seen_messages, seen_timer, index, mem, dialog, pager,
                umh>>

\* One iteration that ends at the continue of line 177.
CrawlSkips ==
    /\ Looping(crawl)
    /\ Skipped(crawl, Head(crawl.queue))
    /\ crawl' = [crawl EXCEPT !.queue = Tail(@), !.turns = 1 - @]
    /\ CrawlFrame

\* One iteration whose fetch raises DisambiguationError: the first option, if
\* there is one, joins the queue at the same depth.
CrawlDisambiguation ==
    LET e == Head(crawl.queue)
        b == crawl.site[e.t]
    IN
    /\ Looping(crawl)
    /\ ~Skipped(crawl, e)
    /\ b.kind = "disambig"
    /\ crawl' = [crawl EXCEPT
          !.queue = IF b.option # "none" THEN Append(Tail(@), Entry(b.option, e.d))
                    ELSE Tail(@),
          !.fetched = @ \cup {e},
          !.turns = 1 - @]
    /\ CrawlFrame

\* One iteration whose fetch raises PageError.
CrawlMissing ==
    LET e == Head(crawl.queue) IN
    /\ Looping(crawl)
    /\ ~Skipped(crawl, e)
    /\ crawl.site[e.t].kind = "missing"
    /\ crawl' = [crawl EXCEPT !.queue = Tail(@), !.fetched = @ \cup {e},
                               !.turns = 1 - @]
    /\ CrawlFrame

\* One iteration that fetches a page, lines 187-194.
CrawlFetches ==
    LET e == Head(crawl.queue)
        b == crawl.site[e.t]
        visited == crawl.visited \cup {e.t}
    IN
    /\ Looping(crawl)
    /\ ~Skipped(crawl, e)
    /\ b.kind = "page"
    /\ crawl' = [crawl EXCEPT
          !.pages_out = Append(@, e.t),
          !.visited = visited,
          !.fetched = @ \cup {e},
          !.turns = 1 - @,
          !.queue = IF EnqueuesLinks(e.d, crawl.depth)
                    THEN Tail(@) \o LinkEntries(b.links, visited, e.d)
                    ELSE Tail(@)]
    /\ CrawlFrame

\* The loop is over: WikiCrawlResponse is returned.
CrawlReturns ==
    /\ crawl.pc = "loop"
    /\ ~Looping(crawl)
    /\ crawl' = [crawl EXCEPT !.pc = "done"]
    /\ CrawlFrame

\* A request with any depth and max_pages, on any site, whose query resolved
\* to title A: queue = [(A, 0)].
CrawlInit ==
    /\ FreshInit /\ RandomStart({}) /\ ScanStart({})
    /\ index = <<>> /\ mem = NoMem
    /\ dialog = NoDialog /\ pager = NoPager /\ umh = NoUpdate
    /\ \E site \in Sites, depth \in 1..MaxDepth, max_pages \in 1..MaxPages :
          crawl = [NoCrawl EXCEPT !.pc = "loop", !.site = site, !.depth = depth,
                                  !.max_pages = max_pages, !.queue = <<Entry("A", 0)>>]

CrawlNext ==
    \/ CrawlSkips
    \/ CrawlDisambiguation
    \/ CrawlMissing
    \/ CrawlFetches
    \/ CrawlReturns

SpecCrawl == CrawlInit /\ [][CrawlNext]_vars

\* The tool is a plain function: once called, its loop keeps running.
SpecCrawlFair == SpecCrawl /\ WF_vars(CrawlNext)

\* ------------------------------------------------ the search_memory command
MaxResults == 12
PageSize == 5           \* memory["results"][i:i + 5]

\* len(chunks) for n results: range(0, n, 5) has one start per page.
NumChunks(n) == (n + PageSize - 1) \div PageSize

Arrows == {"left", "right", "other"}

\* check(reaction, user) of search_memory, when the message was sent.
pager_check(g, r) ==
    /\ r.user = g.author
    /\ r.msg = "dialog"
    /\ r.emoji \in {"left", "right"}

\* A variant of line 534 that never finds the last page.
MutNoLastPageTest(cur, n) == FALSE

\* Line 534: if current_chunk >= len(chunks) - 1
AtLastPage(cur, n) == cur >= NumChunks(n) - 1

PagerFrame ==
    UNCHANGED <<chatVars, posted, nscan, seen_messages, watched_channels, timer, passes,
                npasses, handed, bot_seen_messages, seen_timer, index, mem, dialog,
                toolVars>>

\* search_memory up to the loop: the search answered with n results; if there
\* are any, the first page is sent with the two arrows.  With no result the
\* locals chunks, current_chunk, embed and msg are not bound.
SearchMemory(u, n) ==
    /\ pager.pc = "idle"
    /\ pager' = [NoPager EXCEPT !.pc = "wait", !.author = u, !.results = n,
                                !.msg = (n > 0)]
    /\ PagerFrame

\* A reaction the check rejects: the command goes on waiting.  With no message
\* sent, the check returns False for another user before it reads msg.
PagerIgnores(u, target, emoji) ==
    LET r == [user |-> u, msg |-> target, emoji |-> emoji] IN
    /\ pager.pc = "wait"
    /\ IF pager.msg THEN ~pager_check(pager, r) ELSE u # pager.author
    /\ UNCHANGED pager
    /\ PagerFrame

\* A reaction of the author when no message was sent: the check reads msg and
\* NameError leaves the command.
PagerNameError ==
    /\ pager.pc = "wait"
    /\ ~pager.msg
    /\ pager' = [pager EXCEPT !.pc = "idle", !.outcome = "NameError"]
    /\ PagerFrame

\* The right arrow, lines 533-541 (ok = FALSE: msg.edit or remove_reaction
\* raises, and the exception leaves the command).
PagerRight(ok) ==
    LET cur == IF AtLastPage(pager.current_chunk, pager.results)
               THEN pager.current_chunk ELSE pager.current_chunk + 1
        edits == /\ ~AtLastPage(pager.current_chunk, pager.results)
                 /\ cur < NumChunks(pager.results)
    IN
    /\ pager.pc = "wait"
    /\ pager.msg
    /\ pager' = IF ok
                THEN [pager EXCEPT !.current_chunk = cur,
                                   !.shown = IF edits THEN cur ELSE @]
                ELSE [pager EXCEPT !.pc = "idle", !.current_chunk = cur,
                                   !.outcome = "raised"]
    /\ PagerFrame

\* The left arrow, lines 543-550.
PagerLeft(ok) ==
    LET cur == IF pager.current_chunk > 0
               THEN pager.current_chunk - 1 ELSE pager.current_chunk
    IN
    /\ pager.pc = "wait"
    /\ pager.msg
    /\ pager' = IF ok
                THEN [pager EXCEPT !.current_chunk = cur,
                                   !.shown = IF pager.current_chunk > 0 THEN cur ELSE @]
                ELSE [pager EXCEPT !.pc = "idle", !.current_chunk = cur,
                                   !.outcome = "raised"]
    /\ PagerFrame

\* asyncio.TimeoutError: 60 seconds without a reaction that passes the check.
PagerTimesOut ==
    /\ pager.pc = "wait"
    /\ pager' = [pager EXCEPT !.pc = "idle", !.outcome = "timeout"]
    /\ PagerFrame

PagerInit ==
    /\ FreshInit /\ RandomStart({}) /\ ScanStart({})
    /\ MemStart(<<>>)

PagerNext ==
    \/ \E u \in Users, n \in 0..MaxResults : SearchMemory(u, n)
    \/ \E u \in Users, target \in ReactionTargets, emoji \in Arrows :
          PagerIgnores(u, target, emoji)
    \/ PagerNameError
    \/ \E ok \in BOOLEAN : PagerRight(ok)
    \/ \E ok \in BOOLEAN : PagerLeft(ok)
    \/ PagerTimesOut

SpecPager == PagerInit /\ [][PagerNext]_vars

\* ------------------------------------------------------------------ claims

Finished(c) == pc[c] = "idle" /\ req[c].outcome # "none"

\* C1: in every reachable state each conversation's history list holds at most
\* HistoryCap (10) entries.
C1_HistoryWithinCap ==
    \A c \in DOMAIN message_history : Len(message_history[c]) <= HistoryCap

FirstRunOfStale(c) == pc[c] = "model" /\ req[c].stale /\ req[c].runs = 1

\* C2 as stated: the history supplied to the first model run of a request that
\* found its conversation stale (or without timestamp) is empty.
C2_StaleStartsEmpty ==
    \A c \in Channels : FirstRunOfStale(c) => supplied[c] = <<>>

\* C2 as amended: that history holds no entry carried over from the stored
\* history of the earlier session.  It holds only sys_msg entries: first what
\* get_message_history fetched from the channel (at most FetchLimit entries),
\* then messages written after the request began.
C2_StaleStartsFromChannel ==
    \A c \in Channels : FirstRunOfStale(c) =>
        LET h == supplied[c]
            fetched == SelectSeq(h, LAMBDA e : e.id < 0)
        IN  /\ \A i \in 1..Len(h) :
                  h[i].k = "sys" /\ (h[i].id < 0 \/ h[i].id > req[c].trig.id)
            /\ \E k \in 0..FetchLimit : fetched = FetchRecent(c, k)
            /\ \A i \in 1..Len(h) : h[i].id < 0 => i <= Len(fetched)

\* C2 witness: a second session of "general" begins more than ResetMinutes after
\* the earlier one, and its first run is given a history that is not empty.
C2_Witness ==
    /\ FirstRunOfStale("general")
    /\ last_message_was["general"] > ResetMinutes
    /\ supplied["general"] # <<>>

\* C3: no message is handed to check_facts in more than one pass, and every
\* message that check_watched_channels returned to a pass is in seen_messages
\* from the moment the pass leaves the scan, whatever becomes of the pass.
C3_ReturnedTurnsAreSeen ==
    /\ \A i \in DOMAIN handed : handed[i] <= 1
    /\ \A i \in DOMAIN handed : handed[i] >= 1 => i \in Range(seen_messages)
    /\ \A p \in passes :
          p.pc # "check" => Range(IdsOf(p.msgs)) \subseteq Range(seen_messages)

\* C3 witness: the second pass has filtered, and a message that the first pass
\* handed to check_facts is in seen_messages and not among its messages.
C3_Witness ==
    \E p \in passes, i \in DOMAIN handed :
        /\ p.id = 2
        /\ p.pc # "check"
        /\ handed[i] = 1
        /\ i \in Range(seen_messages)
        /\ i \notin Range(IdsOf(p.msgs))

\* C4: a pass that found every message of the lookback window of every watched
\* channel already in seen_messages calls the model for no channel, gets no
\* facts, and leaves seen_messages as long as it was.
C4_NothingNewNoModelCall ==
    \A p \in passes : (p.pc # "check" /\ p.allSeen) =>
        /\ p.calls = 0
        /\ WithFacts(p.output) = {}
        /\ Len(seen_messages) = p.seen0

\* C5: at no time are two calls of add_memories_task in progress.
C5_OnePassAtATime == Cardinality(passes) <= 1

\* C5 witness: the second pass is in progress, the first one has returned.
C5_Witness ==
    /\ npasses = 2
    /\ \E p \in passes : p.id = 2 /\ p.pc = "extract"

\* C6: the number of model runs of one request never exceeds a fixed budget
\* (the request_limit of 5 is the only budget the code names).
C6_RunsWithinBudget ==
    \A c \in Channels : req[c].runs <= RequestLimit

\* C7: a request whose follow-up wait timed out ends without an exception, and
\* the final response it sent is the pending question.
C7_TimeoutReturnsQuestion ==
    \A c \in Channels : req[c].timedOut =>
        req[c].outcome # "raised" /\ req[c].sent = "question"

\* The entries of c's history that the follow-up exchanges of the request put
\* there: the question entries of its follow-up runs, and every entry made from
\* one of the replies.
ExchangeEntries(c) ==
    {i \in 1..Len(History(c)) :
        LET e == History(c)[i] IN
        \/ e.k = "model" /\ e.id = req[c].id /\ e.run <= req[c].followups
        \/ e.k \in {"user", "sys"} /\ e.id \in req[c].replies}

\* C8: after three follow-up questions, each answered in time, the history has
\* gained exactly 6 entries from those exchanges.
C8_ThreeFollowUpsSixEntries ==
    \A c \in Channels :
        (pc[c] = "run" /\ req[c].followups = 3 /\ pending = {}) =>
            Cardinality(ExchangeEntries(c)) = 6

\* C9: a request that ended without delivering a final answer has sent the
\* failure message to the requester.
C9_FailureIsReported ==
    \A c \in Channels :
        (Finished(c) /\ req[c].outcome # "answered") => req[c].sent = "sorry"

\* C10: once a model run of a request has raised, the request makes no further
\* run: _agent_run has returned None and the request is on its way out.
C10_FailedRunEndsRequest ==
    \A c \in Channels : req[c].failedAt > 0 =>
        /\ req[c].runs = req[c].failedAt
        /\ req[c].result = "none"
        /\ pc[c] \in {"none", "tail", "idle"}

\* C10 witness: the second run of a request raised, and the request has ended
\* with the apology.
C10_Witness ==
    \E c \in Channels :
        /\ Finished(c)
        /\ req[c].failedAt = 2
        /\ req[c].sent = "sorry"

\* C11: when a run of a request raises after an earlier run of the same request
\* produced a result (a follow-up question that was answered), _agent_run
\* returns that earlier result, not the failure value.
C11_PartialResultReturned ==
    \A c \in Channels :
        (req[c].failedAt > 0 /\ req[c].followups > 0) => req[c].result # "none"

\* C12: the message that ended the wait of a request for its follow-up reply
\* was written by the requester, in the channel of the request.
C12_ReplyFromRequesterSameChannel ==
    \A c \in Channels : pc[c] = "reply" =>
        \A m \in pending : m.id = req[c].resp =>
            m.author = req[c].user /\ m.ch = c

\* C13: no call of a model is given stored history of a conversation whose
\* last-activity timestamp was more than ResetMinutes old when the handler
\* picked the history: what it gets then is empty or freshly fetched.
C13_NoStaleHistoryToModel ==
    (random_event.pc \in {"judge", "run"} /\ random_event.stale) =>
        \A i \in 1..Len(random_event.hist) :
            random_event.hist[i].k = "sys" /\ random_event.hist[i].id < 0

\* C14: the seen list that check_watched_channels consults is emptied by the
\* 30-minute timer: once the timer has run, the list holds only ids that a
\* scan put there after the timer ran last, ids of messages written less
\* than LookbackMinutes before that moment or later.
C14_SeenClearedByTimer ==
    seen_timer.due > SeenInterval =>
        \A m \in posted : m.id \in Range(seen_messages) =>
            m.t > (seen_timer.due - SeenInterval) - LookbackMinutes

\* The messages of channel c that the scan of pass p should have returned: those
\* written before the scan and inside its lookback window that were not in the
\* seen list, are no announcement and no command, and carry neither an embed
\* nor an attachment.
Eligible(p, c) ==
    {m \in posted :
        /\ m.ch = c
        /\ m.id <= p.upto
        /\ m.t > p.at - LookbackMinutes
        /\ m.id \notin Range(SubSeq(seen_messages, 1, p.seen0))
        /\ ~is_bot_announcement(m)
        /\ ~StartsWithPrefix(m)
        /\ ~HasEmbeds(m)
        /\ ~HasAttachment(m)}

\* C15: for each watched channel check_watched_channels returns exactly the
\* eligible messages of the lookback window.
C15_ScanReturnsExactlyEligible ==
    \A p \in passes : p.pc # "check" =>
        /\ DOMAIN p.msgs = watched_channels
        /\ \A c \in DOMAIN p.msgs : Range(p.msgs[c]) = Eligible(p, c)

\* C16: when check_facts has returned, the model was run for every channel of
\* the batch, the output has an entry for exactly the channels whose run did not
\* fail, and the pass goes on: the timer task still awaits it.
C16_FailedExtractionIsContained ==
    \A p \in passes : p.pc \in {"store", "notify", "reset"} =>
        /\ p.calls = Len(ChannelsOf(p.msgs))
        /\ {o.ch : o \in p.output} = Range(ChannelsOf(p.msgs)) \ p.failed
        /\ timer.pc = "await"

\* C16 witness: check_facts has returned after the run of one channel failed
\* and the run of the other channel gave an output.
C16_Witness ==
    \E p \in passes :
        /\ p.pc \in {"store", "reset"}
        /\ p.failed # {}
        /\ p.output # {}

\* C17: when add_memories has returned, memory.add was called for every channel
\* with facts, and the audit list holds exactly the channels whose add
\* succeeded, each once.
C17_FailedStoreIsContained ==
    \A p \in passes : p.pc \in {"notify", "reset"} =>
        /\ p.submitted = WithFacts(p.output)
        /\ Range(p.audit) = p.submitted \ p.addFailed
        /\ Len(p.audit) = Cardinality(Range(p.audit))

\* C17 witness: add_memories has returned after the add of one channel failed
\* and the add of the other channel succeeded.
C17_Witness ==
    \E p \in passes :
        /\ p.pc = "notify"
        /\ p.addFailed # {}
        /\ p.audit # <<>>

\* C18: whatever step of a pass fails, the loop of memory_timer keeps running:
\* the timer task is never over.
C18_TimerLoopSurvives == timer.pc # "dead"

\* The last k entries of s, in their order.
LastEntries(s, k) == SubSeq(s, Len(s) - k + 1, Len(s))

\* This step is the one in which the request of c calls
\* add_message_to_chat_history: with a final answer, or after the timeout of a
\* follow-up question.
CallsAddMessage(c) ==
    \/ req[c].outcome # "answered" /\ req'[c].outcome = "answered"
    \/ ~req[c].timedOut /\ req'[c].timedOut

\* C19: after add_message_to_chat_history the history of the conversation is
\* the last min(10, n) entries of the previous history followed by the new
\* messages, n being the length of that concatenation.
C19_HistoryIsLastTenOfConcatenation ==
    [][\A c \in Channels : CallsAddMessage(c) =>
          LET cat == message_history[c]
                       \o new_messages(req'[c].id, req'[c].runs, req'[c].nnew)
              n   == Len(cat)
              k   == IF n < 10 THEN n ELSE 10
          IN  message_history'[c] = LastEntries(cat, k)]_vars

\* C19 witness: the call has discarded old entries of a history that was not
\* empty, and kept some.
C19_Witness ==
    \E c \in Channels :
        /\ req[c].outcome = "answered"
        /\ req[c].before # <<>>
        /\ req[c].nnew < 10
        /\ Len(req[c].before) + req[c].nnew > 10

\* This step is a clear_history command in channel c: a message is written
\* and handled at once.
ClearStep(c) ==
    /\ nposts' = nposts + 1
    /\ pending' = pending
    /\ cleared' = c

\* C20: clear_history in conversation c leaves the history of c empty and the
\* history of every other conversation as it was.
C20_ClearTouchesOneConversation ==
    [][\A c \in Channels : ClearStep(c) =>
          /\ c \in DOMAIN message_history'
          /\ message_history'[c] = <<>>
          /\ \A d \in Channels \ {c} :
                /\ d \in DOMAIN message_history' <=> d \in DOMAIN message_history
                /\ d \in DOMAIN message_history =>
                      message_history'[d] = message_history[d]]_vars

\* C20 witness: the last clear_history was in c, where a request had been
\* answered and recorded; the history of c is empty and another conversation
\* has a history.
C20_Witness ==
    \E c \in Channels, d \in Channels :
        /\ c # d
        /\ cleared = c
        /\ c \in DOMAIN message_history /\ message_history[c] = <<>>
        /\ req[c].outcome = "answered"
        /\ d \in DOMAIN message_history /\ message_history[d] # <<>>

\* Every candidate of the pass has the text of a fact that was in the index.
AllMatch ==
    /\ mem.cands # {}
    /\ \A c \in mem.cands : \E f \in DOMAIN mem.index0 : mem.index0[f] = c

\* C21: a pass whose candidates all have the text of a fact of the index
\* yields only NONE decisions, leaves the index as it was and returns an empty
\* audit list.
C21_MatchingPassIsIdle ==
    (mem.pc = "done" /\ AllMatch) =>
        /\ \A i \in DOMAIN mem.decisions : mem.decisions[i].ev = "NONE"
        /\ index = mem.index0
        /\ mem.audit = {}

\* C21 witness: a pass of two candidates that both match a fact has finished
\* with a decision for each.
C21_Witness ==
    /\ mem.pc = "done"
    /\ AllMatch
    /\ Cardinality(mem.cands) = 2
    /\ Len(mem.decisions) = 2

\* The i-th decision is a DELETE of a fact that was in the index before the
\* Mutator ran.
DeletesPresent(i) ==
    /\ mem.decisions[i].ev = "DELETE"
    /\ KnownId(mem.table, mem.decisions[i])
    /\ FactOf(mem.table, mem.decisions[i].tid) \in DOMAIN mem.index0

UnknownId(i) ==
    /\ mem.decisions[i].ev \in {"UPDATE", "DELETE", "NONE"}
    /\ ~KnownId(mem.table, mem.decisions[i])

\* C23: a decision with an unknown temp id causes no index operation and no
\* audit entry, the pass finishes, and every other decision is applied.
C23_UnknownIdIsDropped ==
    mem.pc = "done" =>
        \A i \in DOMAIN mem.decisions :
            IF UnknownId(i)
            THEN /\ i \notin mem.ops
                 /\ \A a \in mem.audit : a.dec # i
            ELSE /\ mem.decisions[i].ev # "NONE" => i \in mem.ops
                 /\ (mem.decisions[i].ev = "ADD" /\ i \notin mem.fails) =>
                        \E a \in mem.audit : a.dec = i

\* C23 witness: the pass has finished; a decision had an unknown temp id and a
\* later decision of the list has its audit entry.
C23_Witness ==
    /\ mem.pc = "done"
    /\ \E i \in DOMAIN mem.decisions :
          /\ UnknownId(i)
          /\ \E a \in mem.audit : a.dec > i

\* C24: in the temp-id table every fact of a neighborhood has exactly one temp
\* id and distinct facts have distinct temp ids, in whatever order the resolver
\* calls completed.
C24_OneTempIdPerFact ==
    mem.pc \in {"plan", "mutate", "done"} =>
        /\ Range(mem.table) = Range(mem.found)
        /\ Cardinality(Range(mem.table)) = Len(mem.table)

\* C24 witness: the table is assembled and a fact was in the neighborhood of
\* two candidates.
C24_Witness ==
    /\ mem.pc = "plan"
    /\ Cardinality(mem.cands) = 2
    /\ Len(mem.found) > Len(mem.table)
    /\ Len(mem.table) > 1

\* The operations of the pass applied one after the other in the order of the
\* decision list, from the i-th on.
RECURSIVE ApplyFrom(_, _)
ApplyFrom(i, acc) ==
    IF i > Len(mem.decisions) THEN acc
    ELSE IF i \notin mem.ops THEN ApplyFrom(i + 1, acc)
    ELSE LET e == Effect(acc.index, mem.decisions[i], i, mem.table, mem.fails)
         IN  ApplyFrom(i + 1, [index |-> e.index, audit |-> acc.audit \cup e.audit])

InListOrder == ApplyFrom(1, [index |-> mem.index0, audit |-> {}])

\* No two UPDATE or DELETE operations of the pass are about the same fact.
DisjointTargets ==
    \A i \in mem.ops, j \in mem.ops :
        (i # j /\ mem.decisions[i].ev # "ADD" /\ mem.decisions[j].ev # "ADD") =>
            mem.decisions[i].tid # mem.decisions[j].tid

\* C25 as stated: for every decision list the index and the audit entries
\* after the Mutator are those of every other completion order.
C25_OrderDoesNotMatter ==
    mem.pc = "done" =>
        /\ index = InListOrder.index
        /\ mem.audit = InListOrder.audit

\* C25 amended: for every decision list whose UPDATE and DELETE decisions are
\* about distinct facts, the index and the audit entries after the Mutator are
\* those of every other completion order.
C25_OrderDoesNotMatterWhenDisjoint ==
    (mem.pc = "done" /\ DisjointTargets) =>
        /\ index = InListOrder.index
        /\ mem.audit = InListOrder.audit

\* C25 witness: the Mutator has finished three operations about distinct
\* facts, an ADD and a DELETE among them, and all have an audit entry.
C25_Witness ==
    /\ mem.pc = "done"
    /\ DisjointTargets
    /\ Cardinality(mem.audit) >= 3
    /\ \E a, b \in mem.audit : a.action = "ADD" /\ b.action = "DELETE"

\* C26: within one request a model run is followed by the end of the loop or
\* by a follow-up wait, never directly by another model run.
C26_NoRunDirectlyAfterRun ==
    [][\A c \in Channels : pc[c] = "model" => pc'[c] # "run"]_vars

\* The entries of the history of c that record the message with identifier id.
RecordsOf(c, id) ==
    {i \in DOMAIN History(c) :
        History(c)[i].id = id /\ History(c)[i].k \in {"sys", "user"}}

\* C27: while the request goes on and nothing cleared the conversation, each
\* reply to a follow-up question is in the history of the conversation exactly
\* once.
C27_ReplyRecordedOnce ==
    \A c \in Channels : (pc[c] \in {"run", "model", "wait"} /\ cleared # c) =>
        \A r \in req[c].replies : Cardinality(RecordsOf(c, r)) = 1

\* C28: once a scan cycle has read the watched channels, every plain-text
\* message written in a watched channel before that scan has been returned by
\* this scan or an earlier one: no such message falls between the windows.
C28_NoTurnBetweenWindows ==
    \A p \in passes : p.pc # "check" =>
        \A m \in posted :
            (m.ch \in watched_channels /\ m.id <= p.upto /\ m.content = "text") =>
                m.id \in Range(seen_messages)

\* This step leaves new entries in the history of c.
AppendsTo(c) ==
    /\ c \in DOMAIN message_history'
    /\ message_history'[c] # <<>>
    /\ message_history'[c] # History(c)

\* C29: the last-activity timestamp of a conversation is as recent as every
\* append to its history, so that check_message_history never resets a history
\* whose last entry is less than 5 minutes old.
C29_TimestampFollowsAppends ==
    [][\A c \in Channels : AppendsTo(c) =>
          /\ c \in DOMAIN last_message_was'
          /\ last_message_was'[c] = now']_vars

\* C30: the random-reply path of on_message never fails on a channel that has
\* no entry in the session registry: get_message_history treats it as a fresh
\* conversation with empty history.
C30_UnregisteredChannelIsFresh ==
    random_event.m.ch \notin DOMAIN message_history => random_event.error = "none"

\* C31: the set of channels the scanner polls equals the current list of
\* watched channels of the bot, so that a scan cycle after a successful watch
\* in c scans c, and none after a successful unwatch does.
C31_ScannerPollsWatchedChannels ==
    watched_channels = bot_watched_channels

\* The entry on_message appends for a channel message: sys_msg of its text as
\* written.  The entries of a fetch wrap messages older than the session
\* (id < 0).
IsPassiveEntry(e) == e.k = "sys" /\ e.id > 0 /\ e.i = 0

\* This step is the append of lines 166-168 to the history of c.
PassiveAppend(c) ==
    /\ c \in DOMAIN message_history
    /\ c \in DOMAIN message_history'
    /\ Len(message_history'[c]) = Len(message_history[c]) + 1
    /\ SubSeq(message_history'[c], 1, Len(message_history[c])) = message_history[c]
    /\ IsPassiveEntry(message_history'[c][Len(message_history'[c])])

\* The message on_message is handling when it appends entry e.
Handled(c, e) ==
    CHOOSE m \in pending \cup {req[c].trig, random_event.m} : m.id = e.id

\* C32: on_message appends a message to a history only if the conversation is
\* active and the message passes is_valid_message; a message written by the
\* bot itself is never appended; and no call of on_message that ends in its
\* last lines changes a last-activity timestamp.
C32_PassiveAppendOnlyWhenActive ==
    [][/\ \A c \in Channels : PassiveAppend(c) =>
             LET e == message_history'[c][Len(message_history'[c])] IN
             /\ active_conversation(message_history, c)
             /\ \E m \in pending \cup {req[c].trig, random_event.m} : m.id = e.id
             /\ is_valid_message(Handled(c, e))
             /\ Handled(c, e).author # BotUser
             /\ last_message_was' = last_message_was
       /\ (pending' # pending /\ pending' \subseteq pending) =>
             last_message_was' = last_message_was]_vars

\* on_message has appended a message to an active conversation, after an
\* earlier message was written, and no message is waiting for its handler.
C32_Witness ==
    \E c \in Channels :
        /\ active_conversation(message_history, c)
        /\ pending = {}
        /\ nmsgs >= 2
        /\ IsPassiveEntry(message_history[c][Len(message_history[c])])

\* C33: delete_memory removes an entry from the store only when the text of the
\* top search result equals the requested text and the author of the command
\* adds the confirm reaction to the confirmation message within 60 seconds; the
\* cancel reaction, the timeout, and a reaction of another user or on another
\* message leave the store unchanged.
C33_DeleteOnlyOnConfirmedExactMatch ==
    [][index' # index =>
          /\ dialog.pc = "wait"
          /\ dialog.found = dialog.text
          /\ index' = Remove(index, dialog.entry)
          /\ dialog'.reaction =
                [user |-> dialog.author, msg |-> "dialog", emoji |-> "confirm"]
          /\ now - dialog.start < ConfirmTimeout]_vars

\* The author has confirmed a dialogue started after the first minute, and
\* the entry is gone.
C33_Witness ==
    /\ dialog.outcome = "deleted"
    /\ dialog.entry \notin DOMAIN index
    /\ dialog.reaction.user = dialog.author
    /\ dialog.start >= 1

\* C34: delete_memory deletes nothing for a requester who is not listed in the
\* configured bot admins: the confirmation dialogue is never started for a
\* non-admin.
C34_OnlyAdminsDelete ==
    (dialog.pc = "wait" \/ dialog.outcome # "none") => dialog.author \in bot_admins

\* The messages of new that history lacks, where they stand when appended to
\* history, and the positions of the last n entries of that list.
Appended(history, new) == history \o NotIn(history, new)
LastPositions(s, n) == {i \in DOMAIN s : i > Len(s) - n}

\* C35: update_message_history returns at most max_length entries, and a
\* message of new that history lacked is in the result unless it falls outside
\* the last max_length entries.
C35_UpdateTrimsAndKeepsNew ==
    umh.pc = "done" =>
        /\ Len(umh.out) <= umh.max_length
        /\ LET all == Appended(umh.history, umh.new) IN
           \A i \in LastPositions(all, umh.max_length) :
               i > Len(umh.history) => all[i] \in Range(umh.out)

\* C36: with depth = 1 the crawl visits just the start page; no page linked
\* from the start page is fetched or returned.
C36_DepthOneIsStartPageOnly ==
    crawl.depth = 1 =>
        /\ \A e \in crawl.fetched : e.d = 0
        /\ Len(crawl.pages_out) <= 1

\* C37: the crawl loop terminates for every link graph and every pattern of
\* disambiguation and missing-page errors, with at most max_pages pages
\* returned and no title twice.
C37_CrawlTerminates ==
    <>(/\ crawl.pc = "done"
       /\ Len(crawl.pages_out) <= crawl.max_pages
       /\ \A i, j \in DOMAIN crawl.pages_out :
             crawl.pages_out[i] = crawl.pages_out[j] => i = j)

\* C38: in search_memory, under any sequence of left and right reactions, the
\* page index stays within 0 .. number of pages - 1 and the embed shown is the
\* page at the current index.
C38_PageIndexInRange ==
    (pager.pc = "wait" /\ pager.msg) =>
        /\ pager.current_chunk \in 0..(NumChunks(pager.results) - 1)
        /\ pager.shown = pager.current_chunk

\* The last of three pages is shown, after the arrows took the index there.
C38_Witness ==
    /\ pager.pc = "wait"
    /\ NumChunks(pager.results) = 3
    /\ pager.current_chunk = 2
    /\ pager.shown = 2
====
